---- MODULE Spec2Model ----
(***************************************************************************)
(* Model of backend/services/file.service.js (Photonix): the probe         *)
(* concurrency limiter, the media dimension resolver, the album cover      *)
(* resolver and the cover cache invalidator.                               *)
(*                                                                         *)
(* Strings (paths, Redis keys) are sequences of characters, so that key    *)
(* derivation, dirname, replace and LIKE are computed, not assumed.        *)
(* JavaScript values are tagged records so that typeof is computable.      *)
(***************************************************************************)
EXTENDS Integers, Sequences, FiniteSets, TLC

\* ------------------------------------------------------------------ bounds
\* number of callers of the limiter in the limiter specification
NJobs == 3
\* number of buildMediaItem calls (media rows resolved) in the resolver
\* specification
NReq == 2
\* largest configured DIMENSION_PROBE_CONCURRENCY explored (1..MaxLimit)
MaxLimit == 2

\* ------------------------------------------------------- JavaScript values
\* a value is its typeof tag, its number and its string (characters)
Num(n) == [t |-> "number", v |-> n, s |-> << >>]
Str(chars) == [t |-> "string", v |-> 0, s |-> chars]
Undefined == [t |-> "undefined", v |-> 0, s |-> << >>]
JNull == [t |-> "object", v |-> 0, s |-> << >>]
\* JavaScript truthiness of a value
Truthy(x) ==
    \/ x.t = "number" /\ x.v # 0
    \/ x.t = "string" /\ x.s # << >>
\* a || b
OrElse(a, b) == IF Truthy(a) THEN a ELSE b

Dims(w, h) == [width |-> w, height |-> h]

\* JSON text of an object: the sequence of its serialized members; a text
\* that JSON.parse rejects is the Garbage text.
Garbage == [kind |-> "garbage", members |-> <<>>]
JsonText(ms) == [kind |-> "json", members |-> ms]

\* JSON.stringify of {width, height}: a member whose value is undefined is
\* omitted, every other value is written.
JSONstringifyDimsSwapped(d) ==
    LET all == << [k |-> "width", v |-> d.height], [k |-> "height", v |-> d.width] >>
        Keep(m) == m.v # Undefined
    IN  JsonText(SelectSeq(all, Keep))
JSONstringifyDims(d) ==
    LET all == << [k |-> "width", v |-> d.width], [k |-> "height", v |-> d.height] >>
        Keep(m) == m.v # Undefined
    IN  JsonText(SelectSeq(all, Keep))

\* property lookup on a parsed object: a missing member reads undefined
Member(ms, name) ==
    IF \E i \in 1..Len(ms) : ms[i].k = name
    THEN ms[CHOOSE i \in 1..Len(ms) : ms[i].k = name].v
    ELSE Undefined

JSONparseThrows(text) == text.kind = "garbage"
JSONparseDims(text) == Dims(Member(text.members, "width"), Member(text.members, "height"))

\* --------------------------------------------------------------- strings
Digit(n) == << "0", "1", "2", "3", "4", "5", "6", "7", "8", "9" >>[n + 1]
\* String(n) for the small non-negative integers used as mtime
NumberToString(n) ==
    IF n < 10 THEN << Digit(n) >> ELSE << Digit(n \div 10), Digit(n % 10) >>

\* ------------------------------------------------------ dimension resolver
\* isValidDbDimensions: both numbers, both > 0
isValidDbDimensions(dimensions) ==
    /\ dimensions.width.t = "number"
    /\ dimensions.height.t = "number"
    /\ dimensions.width.v > 0
    /\ dimensions.height.v > 0

\* generateCacheKey: `dim:${entryRelativePath}:${mtime}`
generateCacheKeyNoMtime(entryRelativePath, mtime) ==
    << "dim:" >> \o entryRelativePath
generateCacheKey(entryRelativePath, mtime) ==
    << "dim:" >> \o entryRelativePath \o << ":" >> \o NumberToString(mtime)

\* getDefaultDimensions
getDefaultDimensions == Dims(Num(1920), Num(1080))

\* ------------------------------------------------------------ input sets
\* relative paths of media rows
MediaPaths == { << "a" >> }
\* mtime values a row or fs.stat can carry (0 is the falsy/missing mtime)
FileMtimes == { 1, 2 }
\* Date.now() as observed by this run
DateNow == 3
\* width/height columns of an items row (nullable)
DbDimensions == { Dims(Num(2), Num(3)), Dims(JNull, JNull), Dims(Num(0), Num(3)) }
\* what sharp(...).metadata() / getVideoDimensions can resolve with
ProbeResults == { Dims(Num(2), Num(3)), Dims(Undefined, Undefined), Dims(Num(0), Num(3)) }
NoDims == Dims(Undefined, Undefined)
\* settlement of the probe task: fulfilled with dimensions, or rejected
ProbeOutcomes == { [ok |-> TRUE, value |-> d] : d \in ProbeResults }
                 \cup { [ok |-> FALSE, value |-> NoDims] }
\* entries an earlier process may have left under the key of ("a", 1)
StaleEntries == { Garbage,
                  JsonText(<< [k |-> "width", v |-> Num(4)], [k |-> "height", v |-> Num(5)] >>) }

Max(a, b) == IF a > b THEN a ELSE b
Reqs == 1..Max(NJobs, NReq)

\* ------------------------------------------------------------------ state
VARIABLES
    maxConcurrent,  \* DIMENSION_PROBE_CONCURRENCY, fixed at module load
    activeCount,    \* createConcurrencyLimiter: activeCount
    pendingQueue,   \* createConcurrencyLimiter: pendingQueue (job = caller id)
    microtasks,     \* promise reactions of the limiter's chain, in queue order
    redis,          \* the key-value store: present keys -> text
    req,            \* one record per buildMediaItem call / limiter caller
    scheduled,      \* history: callers in the order of their schedule call
    started,        \* history: jobs in the order job.fn was invoked
    computed,       \* history: <<path, mtime>> -> dimensions last cached for it
    albumCovers,    \* table album_covers: album_path -> row
    items,          \* table items, the photo/video rows
    browseIndexesEnsured, \* module flag of ensureBrowseIndexes
    cov,            \* one record per findCoverPhotosBatchDb call
    prev,           \* history: the last findCoverPhotosBatchDb call that returned
    listing,        \* the getDirectoryContents call in flight, or the last one
    dirs,           \* the directories of the filesystem (absolute paths)
    viewHistory,    \* table view_history: rows (user_id, item_path, viewed_at)
    processedVideos, \* table processed_videos: the paths marked as processed
    hlsFiles,       \* the video paths whose HLS output is on disk
    config          \* HOME_SHOW_SUBDIRS, USE_FILE_SYSTEM_HLS_CHECK of ../config

dimVars == << maxConcurrent, activeCount, pendingQueue, microtasks, redis, req,
              scheduled, started, computed >>
coverVars == << albumCovers, items, browseIndexesEnsured, cov, prev >>
listVars == << listing, dirs, viewHistory, processedVideos, hlsFiles, config >>
vars == << dimVars, coverVars, listVars >>

NoOutcome == [ok |-> FALSE, value |-> NoDims]
\* pc: idle, stat, get, queued, starting, running, settling, settled, set, done
\* tier, cacheRead, expects/expect, hitFrom are history fields: the tier that
\* produced the result, whether redis.get was issued, the dimensions the
\* computed tier had cached for this (path, mtime) when the cache was read,
\* and the (path, mtime) pairs whose cached entry was returned.
IdleReq == [ pc |-> "idle", path |-> << >>, mtime |-> 0, dbDimensions |-> NoDims,
             task |-> NoOutcome, promise |-> "none", value |-> NoDims,
             dimensions |-> NoDims, tier |-> "none",
             cacheRead |-> FALSE, getOk |-> FALSE, expects |-> FALSE,
             expect |-> NoDims, hitFrom |-> {}, setOk |-> FALSE ]

RemoveKey(store, k) == [ x \in (DOMAIN store) \ {k} |-> store[x] ]
PutKey(store, k, v) == [ x \in (DOMAIN store) \cup {k} |-> IF x = k THEN v ELSE store[x] ]
EmptyStore == [ x \in {} |-> Garbage ]

\* --------------------------------------------------- concurrency limiter
\* next(): start the head of the queue when a slot is free
nextIgnoringLimit(ac, pq, mt) ==
    IF pq = << >>
    THEN [ activeCount |-> ac, pendingQueue |-> pq, microtasks |-> mt, job |-> {} ]
    ELSE [ activeCount |-> ac + 1, pendingQueue |-> Tail(pq),
           microtasks |-> Append(mt, [kind |-> "fn", job |-> Head(pq)]),
           job |-> { Head(pq) } ]
nextLifo(ac, pq, mt) ==
    IF ac >= maxConcurrent \/ pq = << >>
    THEN [ activeCount |-> ac, pendingQueue |-> pq, microtasks |-> mt, job |-> {} ]
    ELSE [ activeCount |-> ac + 1, pendingQueue |-> SubSeq(pq, 1, Len(pq) - 1),
           microtasks |-> Append(mt, [kind |-> "fn", job |-> pq[Len(pq)]]),
           job |-> { pq[Len(pq)] } ]
next(ac, pq, mt) ==
    IF ac >= maxConcurrent \/ pq = << >>
    THEN [ activeCount |-> ac, pendingQueue |-> pq, microtasks |-> mt, job |-> {} ]
    ELSE [ activeCount |-> ac + 1, pendingQueue |-> Tail(pq),
           microtasks |-> Append(mt, [kind |-> "fn", job |-> Head(pq)]),
           job |-> { Head(pq) } ]

\* the function createConcurrencyLimiter returns, called by caller r with
\* record q as r's state at the call: push the job, then next()
schedule(r, q) ==
    LET n == next(activeCount, Append(pendingQueue, r), microtasks)
    IN  /\ activeCount' = n.activeCount
        /\ pendingQueue' = n.pendingQueue
        /\ microtasks' = n.microtasks
        /\ scheduled' = Append(scheduled, r)
        /\ req' = [ x \in Reqs |->
                      IF x = r
                      THEN [ q EXCEPT !.pc = IF r \in n.job THEN "starting" ELSE "queued",
                                      !.promise = "pending" ]
                      ELSE IF x \in n.job THEN [ req[x] EXCEPT !.pc = "starting" ]
                      ELSE req[x] ]

\* callers are numbered in the order in which they arrive
InOrder(r) == IF r = 1 THEN TRUE ELSE req[r - 1].pc # "idle"

\* calculateDimensions called directly: a caller that missed index and cache
limitDimensionProbe(r) ==
    /\ r <= NJobs
    /\ req[r].pc = "idle"
    /\ InOrder(r)
    /\ schedule(r, req[r])
    /\ UNCHANGED << listVars, maxConcurrent, redis, started, computed, coverVars >>

\* microtask Promise.resolve().then(job.fn): the probe starts
RunFn ==
    /\ microtasks # << >>
    /\ Head(microtasks).kind = "fn"
    /\ LET j == Head(microtasks).job
       IN  /\ req' = [ req EXCEPT ![j].pc = "running" ]
           /\ started' = Append(started, j)
    /\ microtasks' = Tail(microtasks)
    /\ UNCHANGED << listVars, maxConcurrent, activeCount, pendingQueue, redis, scheduled,
                    computed, coverVars >>

\* the probe's I/O completes: the task promise settles with its outcome and
\* the reaction .then(job.resolve, job.reject) is queued
ProbeSettles(r, out) ==
    /\ req[r].pc = "running"
    /\ req' = [ req EXCEPT ![r].pc = "settling", ![r].task = out ]
    /\ microtasks' = Append(microtasks, [kind |-> "settle", job |-> r])
    /\ UNCHANGED << listVars, maxConcurrent, activeCount, pendingQueue, redis, scheduled,
                    started, computed, coverVars >>

\* reaction .then(job.resolve, job.reject): the caller's promise settles
settleResolveOnly(out) ==
    [ promise |-> "fulfilled", value |-> out.value ]
settle(out) ==
    [ promise |-> IF out.ok THEN "fulfilled" ELSE "rejected", value |-> out.value ]

RunSettle ==
    /\ microtasks # << >>
    /\ Head(microtasks).kind = "settle"
    /\ LET j == Head(microtasks).job
           s == settle(req[j].task)
       IN  /\ req' = [ req EXCEPT ![j].pc = "settled", ![j].promise = s.promise,
                                  ![j].value = s.value ]
           /\ microtasks' = Append(Tail(microtasks), [kind |-> "finally", job |-> j])
    /\ UNCHANGED << listVars, maxConcurrent, activeCount, pendingQueue, redis, scheduled,
                    started, computed, coverVars >>

\* reaction .finally(() => { activeCount--; next(); })
RunFinallyWithoutNext ==
    /\ microtasks # << >>
    /\ Head(microtasks).kind = "finally"
    /\ activeCount' = activeCount - 1
    /\ microtasks' = Tail(microtasks)
    /\ UNCHANGED << listVars, maxConcurrent, pendingQueue, req, redis, scheduled, started,
                    computed, coverVars >>
RunFinally ==
    /\ microtasks # << >>
    /\ Head(microtasks).kind = "finally"
    /\ LET n == next(activeCount - 1, pendingQueue, Tail(microtasks))
       IN  /\ activeCount' = n.activeCount
           /\ pendingQueue' = n.pendingQueue
           /\ microtasks' = n.microtasks
           /\ req' = [ x \in Reqs |->
                         IF x \in n.job THEN [ req[x] EXCEPT !.pc = "starting" ]
                         ELSE req[x] ]
    /\ UNCHANGED << listVars, maxConcurrent, redis, scheduled, started, computed, coverVars >>

\* ------------------------------------------------------ dimension resolver
\* getMediaDimensions up to its first await: the index tier
\* (extractDimensionsFromDb), else redis.get is issued
getMediaDimensionsSkipIndex(q) ==
    [ q EXCEPT !.pc = "get", !.cacheRead = TRUE ]
getMediaDimensions(q) ==
    IF isValidDbDimensions(q.dbDimensions)
    THEN [ q EXCEPT !.pc = "done", !.dimensions = q.dbDimensions, !.tier = "index" ]
    ELSE [ q EXCEPT !.pc = "get", !.cacheRead = TRUE ]

\* buildMediaItem for one media row: mtime from the row, else fs.stat
buildMediaItem(r, path, rowMtime, dbDimensions) ==
    /\ r <= NReq
    /\ req[r].pc = "idle"
    /\ InOrder(r)
    /\ LET q == [ req[r] EXCEPT !.path = path, !.mtime = rowMtime,
                                !.dbDimensions = dbDimensions ]
       IN  req' = [ req EXCEPT ![r] = IF rowMtime = 0
                                      THEN [ q EXCEPT !.pc = "stat" ]
                                      ELSE getMediaDimensions(q) ]
    /\ UNCHANGED << listVars, maxConcurrent, activeCount, pendingQueue, microtasks, redis,
                    scheduled, started, computed, coverVars >>

\* fs.stat settles: stats.mtimeMs, or Date.now() when it fails (m = 0)
statDone(r, m) ==
    /\ req[r].pc = "stat"
    /\ req' = [ req EXCEPT ![r] =
                  getMediaDimensions([ req[r] EXCEPT !.mtime = IF m = 0 THEN DateNow ELSE m ]) ]
    /\ UNCHANGED << listVars, maxConcurrent, activeCount, pendingQueue, microtasks, redis,
                    scheduled, started, computed, coverVars >>

\* getDimensionsFromCache(cacheKey): the dimensions, or a miss (hit = FALSE)
\* when the read fails, the key is absent, the text does not parse or the
\* parsed value is not valid
getDimensionsFromCache(cacheKey, ok) ==
    IF ok /\ cacheKey \in DOMAIN redis /\ ~JSONparseThrows(redis[cacheKey])
          /\ isValidDbDimensions(JSONparseDims(redis[cacheKey]))
    THEN [ hit |-> TRUE, dimensions |-> JSONparseDims(redis[cacheKey]) ]
    ELSE [ hit |-> FALSE, dimensions |-> NoDims ]

\* the (path, mtime) pairs whose computed entry lives under key k
ComputedUnder(k) == { pm \in DOMAIN computed : generateCacheKey(pm[1], pm[2]) = k }

\* redis.get settles (ok = FALSE: the store is unreachable) and
\* getMediaDimensions continues: return the hit, else calculateDimensions
redisGetDone(r, ok) ==
    /\ req[r].pc = "get"
    /\ LET cacheKey == generateCacheKey(req[r].path, req[r].mtime)
           c == getDimensionsFromCache(cacheKey, ok)
           pm == << req[r].path, req[r].mtime >>
           q == [ req[r] EXCEPT !.getOk = ok,
                                !.dbDimensions = NoDims,
                                !.expects = pm \in DOMAIN computed,
                                !.expect = IF pm \in DOMAIN computed
                                           THEN computed[pm] ELSE NoDims ]
       IN  IF c.hit
           THEN /\ req' = [ req EXCEPT ![r] =
                              [ q EXCEPT !.pc = "done", !.dimensions = c.dimensions,
                                         !.tier = "cache",
                                         !.hitFrom = ComputedUnder(cacheKey) ] ]
                /\ UNCHANGED << activeCount, pendingQueue, microtasks, scheduled >>
           ELSE schedule(r, q)
    /\ UNCHANGED << listVars, maxConcurrent, redis, started, computed, coverVars >>

\* getMediaDimensions resumes after await calculateDimensions: on success
\* cacheDimensions issues redis.set, on failure the default is returned
resumeCachingDefault(r) ==
    /\ req[r].pc = "settled"
    /\ req' = [ req EXCEPT ![r] =
                  IF req[r].promise = "fulfilled"
                  THEN [ req[r] EXCEPT !.pc = "set", !.dimensions = req[r].value,
                                       !.task = NoOutcome, !.value = NoDims ]
                  ELSE [ req[r] EXCEPT !.pc = "set", !.dimensions = getDefaultDimensions,
                                       !.task = NoOutcome, !.value = NoDims ] ]
    /\ UNCHANGED << listVars, maxConcurrent, activeCount, pendingQueue, microtasks, redis,
                    scheduled, started, computed, coverVars >>
resume(r) ==
    /\ req[r].pc = "settled"
    /\ req' = [ req EXCEPT ![r] =
                  IF req[r].promise = "fulfilled"
                  THEN [ req[r] EXCEPT !.pc = "set", !.dimensions = req[r].value,
                                       !.task = NoOutcome, !.value = NoDims ]
                  ELSE [ req[r] EXCEPT !.pc = "done", !.dimensions = getDefaultDimensions,
                                       !.tier = "default",
                                       !.task = NoOutcome, !.value = NoDims ] ]
    /\ UNCHANGED << listVars, maxConcurrent, activeCount, pendingQueue, microtasks, redis,
                    scheduled, started, computed, coverVars >>

\* redis.set of cacheDimensions settles (ok = FALSE: swallowed), then
\* getMediaDimensions returns the computed dimensions
redisSetDone(r, ok) ==
    /\ req[r].pc = "set"
    /\ LET cacheKey == generateCacheKey(req[r].path, req[r].mtime)
           pm == << req[r].path, req[r].mtime >>
       IN  /\ redis' = IF ok THEN PutKey(redis, cacheKey, JSONstringifyDims(req[r].dimensions))
                       ELSE redis
           /\ computed' = IF ok THEN PutKey(computed, pm, req[r].dimensions) ELSE computed
    /\ req' = [ req EXCEPT ![r].pc = "done", ![r].tier = "computed", ![r].setOk = ok ]
    /\ UNCHANGED << listVars, maxConcurrent, activeCount, pendingQueue, microtasks,
                    scheduled, started, coverVars >>

\* the TTL of a dimension entry runs out
IsDimKey(k) == Head(k) = "dim:"
expire(k) ==
    /\ k \in DOMAIN redis
    /\ IsDimKey(k)
    /\ redis' = RemoveKey(redis, k)
    /\ computed' = [ pm \in (DOMAIN computed) \ ComputedUnder(k) |-> computed[pm] ]
    /\ UNCHANGED << listVars, maxConcurrent, activeCount, pendingQueue, microtasks, req,
                    scheduled, started, coverVars >>

\* ------------------------------------------------------------ path strings
\* the media root of ../config
PHOTOS_DIR == << "/", "p" >>

\* String.prototype.startsWith
startsWith(s, p) == Len(p) <= Len(s) /\ SubSeq(s, 1, Len(p)) = p

\* String.prototype.indexOf, 1-based; 0 when p does not occur in s
IndexOf(s, p) ==
    LET hits == { i \in 1..(Len(s) - Len(p) + 1) : SubSeq(s, i, i + Len(p) - 1) = p }
    IN  IF hits = {} THEN 0 ELSE CHOOSE i \in hits : \A j \in hits : i <= j

\* s.replace(p, by) with a string pattern: the first occurrence only
replaceFirst(s, p, by) ==
    LET i == IndexOf(s, p)
    IN  IF i = 0 THEN s ELSE SubSeq(s, 1, i - 1) \o by \o SubSeq(s, i + Len(p), Len(s))

\* s.replace(/\\/g, '/')
RECURSIVE ReplaceBackslashes(_)
ReplaceBackslashes(s) ==
    IF s = << >> THEN << >>
    ELSE << IF Head(s) = "\\" THEN "/" ELSE Head(s) >> \o ReplaceBackslashes(Tail(s))

\* s.split('/')
RECURSIVE Split(_)
Split(s) ==
    IF s = << >> THEN << << >> >>
    ELSE LET rest == Split(Tail(s))
         IN  IF Head(s) = "/" THEN << << >> >> \o rest
             ELSE << << Head(s) >> \o Head(rest) >> \o Tail(rest)

\* path.normalize on segments: '' and '.' vanish, '..' removes the segment
\* before it
RECURSIVE ResolveSegments(_, _)
ResolveSegments(segs, acc) ==
    IF segs = << >> THEN acc
    ELSE LET seg == Head(segs)
         IN  IF seg = << >> \/ seg = << "." >> THEN ResolveSegments(Tail(segs), acc)
             ELSE IF seg = << ".", "." >>
             THEN ResolveSegments(Tail(segs),
                                  IF acc = << >> THEN acc ELSE SubSeq(acc, 1, Len(acc) - 1))
             ELSE ResolveSegments(Tail(segs), Append(acc, seg))

RECURSIVE JoinSegments(_)
JoinSegments(segs) ==
    IF segs = << >> THEN << >>
    ELSE IF Len(segs) = 1 THEN Head(segs)
    ELSE Head(segs) \o << "/" >> \o JoinSegments(Tail(segs))

\* path.join(a, b) for an absolute a: empty arguments are skipped, the rest
\* joined with '/' and normalized; a trailing '/' is kept
pathJoin(a, b) ==
    LET s == IF b = << >> THEN a ELSE a \o << "/" >> \o b
        segs == ResolveSegments(Split(s), << >>)
    IN  << "/" >> \o JoinSegments(segs)
        \o (IF s[Len(s)] = "/" /\ segs # << >> THEN << "/" >> ELSE << >>)

RECURSIVE StripTrailingSlashes(_)
StripTrailingSlashes(s) ==
    IF Len(s) > 1 /\ s[Len(s)] = "/" THEN StripTrailingSlashes(SubSeq(s, 1, Len(s) - 1))
    ELSE s

\* path.dirname (posix)
pathDirname(s) ==
    LET t == StripTrailingSlashes(s)
        slashes == { i \in 1..Len(t) : t[i] = "/" }
        last == IF slashes = {} THEN 0 ELSE CHOOSE i \in slashes : \A j \in slashes : j <= i
    IN  IF last = 0 THEN << "." >>
        ELSE IF last = 1 THEN << "/" >>
        ELSE StripTrailingSlashes(SubSeq(t, 1, last - 1))

\* isPathSafe of ../utils/path.utils: a relative path that stays inside the
\* media root (not absolute, no '..' segment)
isPathSafe(rel) ==
    /\ ~startsWith(rel, << "/" >>)
    /\ \A i \in 1..Len(Split(rel)) : Split(rel)[i] # << ".", "." >>

\* SQLite LIKE: '%' matches any run, '_' one character, letters compare
\* without case
Lower(c) ==
    IF c = "A" THEN "a" ELSE IF c = "B" THEN "b" ELSE IF c = "C" THEN "c"
    ELSE IF c = "D" THEN "d" ELSE IF c = "X" THEN "x" ELSE c
RECURSIVE Like(_, _)
Like(pat, s) ==
    IF pat = << >> THEN s = << >>
    ELSE IF Head(pat) = "%"
    THEN Like(Tail(pat), s) \/ (s # << >> /\ Like(pat, Tail(s)))
    ELSE /\ s # << >>
         /\ (Head(pat) = "_" \/ Lower(Head(pat)) = Lower(Head(s)))
         /\ Like(Tail(pat), Tail(s))

\* ------------------------------------------------------------ cover resolver
\* CoverInfo {path, width, height, mtime}
Info(p, w, h, m) == [path |-> p, width |-> w, height |-> h, mtime |-> m]
NoInfo == Info(Undefined, Undefined, Undefined, Undefined)
EmptyCovers == [ a \in {} |-> NoInfo ]

\* JSON.stringify(info): undefined members are omitted
JSONstringifyInfoNoMtime(info) ==
    LET all == << [k |-> "path", v |-> info.path], [k |-> "width", v |-> info.width],
                  [k |-> "height", v |-> info.height] >>
        Keep(m) == m.v # Undefined
    IN  JsonText(SelectSeq(all, Keep))
JSONstringifyInfo(info) ==
    LET all == << [k |-> "path", v |-> info.path], [k |-> "width", v |-> info.width],
                  [k |-> "height", v |-> info.height], [k |-> "mtime", v |-> info.mtime] >>
        Keep(m) == m.v # Undefined
    IN  JsonText(SelectSeq(all, Keep))
\* the object JSON.parse returns for a cover entry
JSONparseInfo(text) ==
    Info(Member(text.members, "path"), Member(text.members, "width"),
         Member(text.members, "height"), Member(text.members, "mtime"))

\* `cover_info:/${rel}`: the key findCoverPhotosBatchDb reads and writes
coverCacheKey(rel) == << "cover_info:", "/" >> \o rel

\* FILE_BATCH_SIZE: album paths per album_covers query
BATCH == 1
\* number of findCoverPhotosBatchDb calls
NCalls == 2
Calls == 1..NCalls

\* album paths relative to the media root: A, A/B, C, A\B and ../A
RelA == << "A" >>
RelAB == << "A", "/", "B" >>
RelC == << "C" >>
RelABwin == << "A", "\\", "B" >>
RelUp == << ".", ".", "/", "A" >>
AlbumRels == { RelA, RelAB, RelC }
\* the relativeDirs arguments of the calls
BatchInputs == { << >>, << RelUp, RelC >>, << RelABwin, RelA >> }

\* rows of table items: album C holds no media
ItemRow(p, type, w, h, m) == [path |-> p, type |-> type, width |-> w, height |-> h, mtime |-> m]
ItemsWorld ==
    { ItemRow(<< "A", "/", "x" >>, "photo", Num(2), Num(3), Num(5)),
      ItemRow(<< "A", "/", "z" >>, "video", Num(0), JNull, Num(4)),
      ItemRow(<< "A", "/", "B" >>, "album", JNull, JNull, Num(6)),
      ItemRow(<< "A", "/", "B", "/", "y" >>, "photo", Num(0), JNull, JNull) }

\* rows of table album_covers the indexer may have written
CoverRow(a, c, w, h, m) ==
    [album_path |-> a, cover_path |-> c, width |-> w, height |-> h, mtime |-> m]
RowAx == CoverRow(RelA, << "A", "/", "x" >>, Num(2), Num(3), Num(5))
RowAz == CoverRow(RelA, << "A", "/", "z" >>, Num(0), JNull, JNull)
IndexerRows == { RowAz }

\* a cover entry left in the store by an earlier run
StaleCover == JSONstringifyInfo(Info(Str(<< "/", "p", "/", "A", "/", "o" >>), Num(1), Num(1), Num(4)))
\* Date.now() as observed by call c: a later call reads a later clock
DateNowOf(c) == DateNow + c
\* absolute paths reported as changed
ChangedPaths == { << "/", "p", "/", "A", "/", "B", "/", "y" >>,
                  << "/", "p", "/", "C" >> }
\* the changed paths of the invalidator specification: also an album
\* directory itself and a path outside the media root that shares its prefix
InvalidatedPaths == ChangedPaths \cup { << "/", "p", "/", "A", "/", "B" >>,
                                       << "/", "p", "q", "/", "A", "/", "x" >> }

Range(seq) == { seq[i] : i \in 1..Len(seq) }
RemoveKeys(store, ks) == [ x \in (DOMAIN store) \ ks |-> store[x] ]
limiterVars == << maxConcurrent, activeCount, pendingQueue, microtasks, req,
                  scheduled, started, computed >>

\* pc: idle, mget, table, tableSet, items, itemsSet, done
\* off: offset i of the album_covers loop; rows: rows of the current batch not
\* yet processed; still: stillMissing albums not yet processed; info: the
\* info whose redis.set is awaited.
\* History fields: tableQ / itemsQ count the queries sent to album_covers /
\* items, faults records a failed store or index operation, alone that no
\* other call, invalidation, expiry or index update overlapped the call,
\* repeatOf the result of the preceding call when this call repeats it,
\* hits the albums served from the cache, afterInv the albums of the batch
\* invalidated and not written again when the cache was read; read / wrote
\* the keys given to redis.mget / redis.set, asked the album paths given to
\* the album_covers query, liked the patterns given to the items query, fell
\* the albums resolved by the items query, failed the operations that failed
\* (mget, table, items + album, tset / iset + album).
NoRepeat == [valid |-> FALSE, result |-> EmptyCovers]
IdleCall == [ pc |-> "idle", rels |-> << >>, safeRels |-> << >>, missing |-> << >>,
              coversMap |-> EmptyCovers, off |-> 0, rows |-> << >>, still |-> << >>,
              info |-> NoInfo, tableQ |-> 0, itemsQ |-> 0, faults |-> FALSE,
              alone |-> FALSE, repeatOf |-> NoRepeat, hits |-> {}, afterInv |-> {},
              read |-> {}, wrote |-> {}, asked |-> {}, liked |-> {}, fell |-> {},
              failed |-> {} ]
\* prev: the last call that returned undisturbed (valid, rels, result), and
\* inv, the albums invalidated and not written to the cache since
\* self: the albums that were themselves the changed path of an invalidation
\* while they had a cache entry, not written or invalidated as an ancestor since
\* log: whether the calls record their operations (read .. failed)
\* race: whether the index updates are recorded: updated, the albums whose
\* cover in the index changed, and swept, the albums whose cache key was
\* deleted by an invalidation after the last change of their cover
NoPrev == [valid |-> FALSE, rels |-> << >>, result |-> EmptyCovers, inv |-> {}, self |-> {},
           log |-> FALSE, race |-> FALSE, updated |-> {}, swept |-> {}]
\* the operation log of call record q is kept only when it is recorded
History(q) ==
    IF prev.log THEN q
    ELSE [ q EXCEPT !.read = {}, !.wrote = {}, !.asked = {}, !.liked = {}, !.fell = {},
                    !.failed = {} ]

\* the calls of one listing after another: call c follows the return of c - 1
InOrderCall(c) == IF c = 1 THEN TRUE ELSE cov[c - 1].pc = "done"
\* every call in flight has been overlapped by another operation
Disturbed(cv) == [ d \in Calls |-> IF cv[d].pc \notin { "idle", "done" }
                                   THEN [ cv[d] EXCEPT !.alone = FALSE ] ELSE cv[d] ]

\* return coversMap
Return(q) == [ q EXCEPT !.pc = "done", !.safeRels = << >>, !.missing = << >>, !.off = 0,
                        !.rows = << >>, !.still = << >>, !.info = NoInfo ]
\* the history after call record q wrote the cache entries of albums w
PrevAfter(q, w) ==
    LET p == [ prev EXCEPT !.inv = prev.inv \ w, !.self = prev.self \ w ]
        clean == q.alone /\ ~q.faults
    IN  IF q.pc # "done" THEN p
        ELSE [ p EXCEPT !.valid = clean,
                        !.rels = IF clean THEN q.rels ELSE << >>,
                        !.result = IF clean THEN q.coversMap ELSE EmptyCovers ]

\* relativeDirs with '\\' replaced by '/', the unsafe paths dropped
SafeRelsOfUnfiltered(relativeDirs) ==
    [ i \in 1..Len(relativeDirs) |-> ReplaceBackslashes(relativeDirs[i]) ]
SafeRelsOf(relativeDirs) ==
    SelectSeq([ i \in 1..Len(relativeDirs) |-> ReplaceBackslashes(relativeDirs[i]) ], isPathSafe)

\* findCoverPhotosBatchDb(relativeDirs) up to redis.mget: ensureBrowseIndexes
\* (ok = FALSE: index creation failed, ignored), then the path filter
findCoverPhotosBatchDb(c, relativeDirs, ok) ==
    /\ c \in Calls
    /\ cov[c].pc = "idle"
    /\ InOrderCall(c)
    /\ browseIndexesEnsured => ok
    /\ browseIndexesEnsured' = (browseIndexesEnsured \/ ok)
    /\ LET safeRels == SafeRelsOf(relativeDirs)
           q0 == [ IdleCall EXCEPT !.rels = relativeDirs, !.alone = TRUE,
                                   !.repeatOf = IF prev.valid /\ prev.rels = relativeDirs
                                                THEN [valid |-> TRUE, result |-> prev.result]
                                                ELSE NoRepeat ]
           q == IF relativeDirs = << >> \/ safeRels = << >>
                THEN Return(q0)
                ELSE [ q0 EXCEPT !.pc = "mget", !.safeRels = safeRels ]
       IN  /\ cov' = [ cov EXCEPT ![c] = q ]
           /\ prev' = PrevAfter(q, {})
    /\ UNCHANGED << listVars, limiterVars, redis, albumCovers, items >>

\* the cache tier: an entry that parses and has a path is a hit
CacheHit(store, rel) ==
    /\ coverCacheKey(rel) \in DOMAIN store
    /\ ~JSONparseThrows(store[coverCacheKey(rel)])
    /\ Truthy(JSONparseInfo(store[coverCacheKey(rel)]).path)
RECURSIVE CacheTier(_, _, _)
CacheTier(rels, store, acc) ==
    IF rels = << >> THEN acc
    ELSE LET rel == Head(rels)
         IN  IF CacheHit(store, rel)
             THEN CacheTier(Tail(rels), store,
                            [ acc EXCEPT !.coversMap =
                                PutKey(acc.coversMap, pathJoin(PHOTOS_DIR, rel),
                                       JSONparseInfo(store[coverCacheKey(rel)])) ])
             ELSE CacheTier(Tail(rels), store,
                            [ acc EXCEPT !.missing = Append(acc.missing, rel) ])

\* redis.mget settles (ok = FALSE: every album is a miss)
mgetDone(c, ok) ==
    /\ cov[c].pc = "mget"
    /\ LET store == IF ok THEN redis ELSE EmptyStore
           t == CacheTier(cov[c].safeRels, store, [coversMap |-> EmptyCovers, missing |-> << >>])
           q0 == [ cov[c] EXCEPT !.coversMap = t.coversMap, !.missing = t.missing,
                                 !.faults = ~ok,
                                 !.failed = IF ok THEN {} ELSE { << "mget" >> },
                                 !.read = { coverCacheKey(rel) : rel \in Range(cov[c].safeRels) },
                                 !.hits = { rel \in Range(cov[c].safeRels) : CacheHit(store, rel) },
                                 !.afterInv = prev.inv \cap Range(cov[c].safeRels) ]
           q == IF t.missing = << >> THEN Return(q0) ELSE [ q0 EXCEPT !.pc = "table" ]
       IN  /\ cov' = [ cov EXCEPT ![c] = History(q) ]
           /\ prev' = PrevAfter(q, {})
    /\ UNCHANGED << listVars, limiterVars, redis, albumCovers, items, browseIndexesEnsured >>

\* info of an album_covers row / an items row
TableRowInfo(row, now) ==
    Info(Str(pathJoin(PHOTOS_DIR, row.cover_path)), OrElse(row.width, Num(1)),
         OrElse(row.height, Num(1)), OrElse(row.mtime, Num(now)))
ItemRowInfo(r, now) ==
    Info(Str(pathJoin(PHOTOS_DIR, r.path)), OrElse(r.width, Num(1)),
         OrElse(r.height, Num(1)), OrElse(r.mtime, Num(now)))

\* stillMissing, then the per-album fallback loop or the return
Fallback(q) ==
    LET NotCovered(rel) == pathJoin(PHOTOS_DIR, rel) \notin DOMAIN q.coversMap
        still == SelectSeq(q.missing, NotCovered)
    IN  IF still = << >> THEN Return(q)
        ELSE [ q EXCEPT !.pc = "items", !.still = still, !.rows = << >>, !.info = NoInfo ]
\* the next batch of the album_covers loop, or the fallback
AfterBatch(q) ==
    IF q.off + BATCH < Len(q.missing)
    THEN [ q EXCEPT !.pc = "table", !.off = q.off + BATCH, !.rows = << >>, !.info = NoInfo ]
    ELSE Fallback(q)
\* the head row of the batch: coversMap.set, then redis.set is awaited
EnterRow(q, now) ==
    LET row == Head(q.rows)
        info == TableRowInfo(row, now)
    IN  [ q EXCEPT !.pc = "tableSet", !.info = info,
                   !.coversMap = PutKey(q.coversMap, pathJoin(PHOTOS_DIR, row.album_path), info) ]

\* SELECT ... FROM album_covers WHERE album_path IN (batch)
CoverRowsIn(batch) ==
    LET first == { i \in 1..Len(batch) : \A j \in 1..(i - 1) : batch[j] # batch[i] }
        Found(i) == i \in first /\ batch[i] \in DOMAIN albumCovers
        idx == SelectSeq([ i \in 1..Len(batch) |-> i ], Found)
    IN  [ n \in 1..Len(idx) |-> albumCovers[batch[idx[n]]] ]

\* the album_covers query of one batch settles (ok = FALSE: the loop is left)
tableDoneAbort(c, ok) ==
    /\ cov[c].pc = "table"
    /\ LET last == IF cov[c].off + BATCH < Len(cov[c].missing)
                   THEN cov[c].off + BATCH ELSE Len(cov[c].missing)
           batch == SubSeq(cov[c].missing, cov[c].off + 1, last)
           q0 == [ cov[c] EXCEPT !.tableQ = 1 + cov[c].tableQ,
                                 !.asked = cov[c].asked \cup Range(batch),
                                 !.failed = IF ok THEN cov[c].failed
                                            ELSE cov[c].failed \cup { << "table" >> },
                                 !.faults = cov[c].faults \/ ~ok ]
           rows == CoverRowsIn(batch)
           q == IF ~ok THEN Return(q0)
                ELSE IF rows = << >> THEN AfterBatch(q0)
                ELSE EnterRow([ q0 EXCEPT !.rows = rows ], DateNowOf(c))
       IN  /\ cov' = [ cov EXCEPT ![c] = History(q) ]
           /\ prev' = PrevAfter(q, {})
    /\ UNCHANGED << listVars, limiterVars, redis, albumCovers, items, browseIndexesEnsured >>
tableDone(c, ok) ==
    /\ cov[c].pc = "table"
    /\ LET last == IF cov[c].off + BATCH < Len(cov[c].missing)
                   THEN cov[c].off + BATCH ELSE Len(cov[c].missing)
           batch == SubSeq(cov[c].missing, cov[c].off + 1, last)
           q0 == [ cov[c] EXCEPT !.tableQ = 1 + cov[c].tableQ,
                                 !.asked = cov[c].asked \cup Range(batch),
                                 !.failed = IF ok THEN cov[c].failed
                                            ELSE cov[c].failed \cup { << "table" >> },
                                 !.faults = cov[c].faults \/ ~ok ]
           rows == CoverRowsIn(batch)
           q == IF ~ok THEN Fallback(q0)
                ELSE IF rows = << >> THEN AfterBatch(q0)
                ELSE EnterRow([ q0 EXCEPT !.rows = rows ], DateNowOf(c))
       IN  /\ cov' = [ cov EXCEPT ![c] = History(q) ]
           /\ prev' = PrevAfter(q, {})
    /\ UNCHANGED << listVars, limiterVars, redis, albumCovers, items, browseIndexesEnsured >>

\* redis.set of a table row's info settles (ok = FALSE: swallowed)
tableSetDone(c, ok) ==
    /\ cov[c].pc = "tableSet"
    /\ LET row == Head(cov[c].rows)
           q0 == [ cov[c] EXCEPT !.rows = Tail(cov[c].rows),
                                 !.wrote = cov[c].wrote \cup { coverCacheKey(row.album_path) },
                                 !.failed = IF ok THEN cov[c].failed
                                            ELSE cov[c].failed \cup { << "tset" >> \o row.album_path },
                                 !.faults = cov[c].faults \/ ~ok ]
           q == IF q0.rows # << >> THEN EnterRow(q0, DateNowOf(c)) ELSE AfterBatch(q0)
       IN  /\ redis' = IF ok THEN PutKey(redis, coverCacheKey(row.album_path),
                                         JSONstringifyInfo(cov[c].info))
                       ELSE redis
           /\ cov' = [ cov EXCEPT ![c] = History(q) ]
           /\ prev' = PrevAfter(q, IF ok THEN { row.album_path } ELSE {})
    /\ UNCHANGED << listVars, limiterVars, albumCovers, items, browseIndexesEnsured >>

\* SELECT ... FROM items WHERE type IN ('photo','video') AND path LIKE ?
\* ORDER BY mtime DESC LIMIT 1: the rows that can come first (NULL sorts last)
MtimeRank(r) == IF r.mtime.t = "number" THEN r.mtime.v ELSE 0 - 1
TopItems(likeParam) ==
    LET match == { r \in items : r.type \in { "photo", "video" } /\ Like(likeParam, r.path) }
    IN  { r \in match : \A o \in match : MtimeRank(o) <= MtimeRank(r) }
likeParamOf(rel) == IF rel # << >> THEN rel \o << "/", "%" >> ELSE << "%" >>

\* the next stillMissing album, or the return
AfterItem(q) ==
    IF Len(q.still) > 1
    THEN [ q EXCEPT !.pc = "items", !.still = Tail(q.still), !.info = NoInfo ]
    ELSE Return(q)

\* the items query of one album settles (ok = FALSE: logged, next album)
itemsDone(c, ok) ==
    /\ cov[c].pc = "items"
    /\ LET rel == Head(cov[c].still)
           q0 == [ cov[c] EXCEPT !.itemsQ = 1 + cov[c].itemsQ,
                                 !.liked = cov[c].liked \cup { likeParamOf(rel) },
                                 !.failed = IF ok THEN cov[c].failed
                                            ELSE cov[c].failed \cup { << "items" >> \o rel },
                                 !.faults = cov[c].faults \/ ~ok ]
           top == TopItems(likeParamOf(rel))
       IN  IF ~ok \/ top = {}
           THEN /\ cov' = [ cov EXCEPT ![c] = History(AfterItem(q0)) ]
                /\ prev' = PrevAfter(AfterItem(q0), {})
           ELSE \E r \in top :
                  LET info == ItemRowInfo(r, DateNowOf(c))
                      q == [ q0 EXCEPT !.pc = "itemsSet", !.info = info,
                                       !.fell = q0.fell \cup { rel },
                                       !.coversMap = PutKey(q0.coversMap,
                                                            pathJoin(PHOTOS_DIR, rel), info) ]
                  IN  /\ cov' = [ cov EXCEPT ![c] = History(q) ]
                      /\ prev' = PrevAfter(q, {})
    /\ UNCHANGED << listVars, limiterVars, redis, albumCovers, items, browseIndexesEnsured >>

\* redis.set of a fallback info settles (ok = FALSE: swallowed)
itemsSetDone(c, ok) ==
    /\ cov[c].pc = "itemsSet"
    /\ LET rel == Head(cov[c].still)
           q == AfterItem([ cov[c] EXCEPT
                              !.wrote = cov[c].wrote \cup { coverCacheKey(rel) },
                              !.failed = IF ok THEN cov[c].failed
                                         ELSE cov[c].failed \cup { << "iset" >> \o rel },
                              !.faults = cov[c].faults \/ ~ok ])
       IN  /\ redis' = IF ok THEN PutKey(redis, coverCacheKey(rel), JSONstringifyInfo(cov[c].info))
                       ELSE redis
           /\ cov' = [ cov EXCEPT ![c] = History(q) ]
           /\ prev' = PrevAfter(q, IF ok THEN { rel } ELSE {})
    /\ UNCHANGED << listVars, limiterVars, albumCovers, items, browseIndexesEnsured >>

\* ------------------------------------------------------------- album items
\* encodeURIComponent: '/' is escaped, letters, digits, '-' and '_' are kept
RECURSIVE encodeURIComponent(_)
encodeURIComponent(str) ==
    IF str = << >> THEN << >>
    ELSE (IF Head(str) = "/" THEN << "%", "2", "F" >>
          ELSE IF Head(str) = "\\" THEN << "%", "5", "C" >>
          ELSE << Head(str) >>) \o encodeURIComponent(Tail(str))
\* path.relative(PHOTOS_DIR, p) for a p below PHOTOS_DIR
pathRelative(from, to) ==
    IF to = from THEN << >>
    ELSE IF startsWith(to, from \o << "/" >>) THEN SubSeq(to, Len(from) + 2, Len(to))
    ELSE << ".", ".", "/" >> \o to
\* path.basename
pathBasename(str) == LET segs == Split(StripTrailingSlashes(str)) IN segs[Len(segs)]
\* the inline SVG placeholder
PlaceholderCover == << "data:image/svg+xml,..." >>

\* buildAlbumItem; statMtime is what fs.stat gives when the info has no mtime
buildAlbumItem(row, coversMap, entryRelativePath, statMtime) ==
    LET fullAbsPath == pathJoin(PHOTOS_DIR, entryRelativePath)
        found == IF fullAbsPath \in DOMAIN coversMap
                 THEN Truthy(coversMap[fullAbsPath].path) ELSE FALSE
        coverInfo == IF found THEN coversMap[fullAbsPath] ELSE NoInfo
        coverMtime == IF coverInfo.mtime \in { JNull, Undefined } THEN statMtime
                      ELSE coverInfo.mtime.v
    IN  [ type |-> "album",
          name |-> IF Truthy(row.name) THEN row.name.s ELSE pathBasename(entryRelativePath),
          path |-> entryRelativePath,
          coverUrl |-> IF found
                       THEN << "/api/thumbnail?path=" >>
                            \o encodeURIComponent(pathRelative(PHOTOS_DIR, coverInfo.path.s))
                            \o << "&v=" >> \o NumberToString(coverMtime)
                       ELSE PlaceholderCover,
          mtime |-> OrElse(row.mtime, Num(0)),
          coverWidth |-> IF found THEN coverInfo.width ELSE Num(1),
          coverHeight |-> IF found THEN coverInfo.height ELSE Num(1) ]

\* --------------------------------------------------------- cache invalidator
\* getAllParentPaths: the directories above filePath, below PHOTOS_DIR
RECURSIVE ParentLoop(_)
ParentLoop(currentPath) ==
    IF currentPath # PHOTOS_DIR /\ startsWith(currentPath, PHOTOS_DIR)
    THEN << currentPath >> \o ParentLoop(pathDirname(currentPath))
    ELSE << >>
getAllParentPathsOnlyParent(filePath) ==
    LET currentPath == pathDirname(filePath)
    IN  IF currentPath # PHOTOS_DIR /\ startsWith(currentPath, PHOTOS_DIR)
        THEN << currentPath >> ELSE << >>
getAllParentPathsWithSelf(filePath) == << filePath >> \o ParentLoop(pathDirname(filePath))
getAllParentPaths(filePath) == ParentLoop(pathDirname(filePath))

\* `cover_info:${p.replace(PHOTOS_DIR, '').replace(/\\/g, '/')}`
invalidationKeyNoStrip(p) ==
    << "cover_info:" >> \o ReplaceBackslashes(p)
invalidationKey(p) ==
    << "cover_info:" >> \o ReplaceBackslashes(replaceFirst(p, PHOTOS_DIR, << >>))

\* the albums that contain changedPath, the media root excluded
AncestorAlbums(changedPath) ==
    { a \in AlbumRels : startsWith(changedPath, PHOTOS_DIR \o << "/" >> \o a \o << "/" >>) }

\* the album that is the changed path itself
ChangedAlbum(changedPath) == { a \in AlbumRels : PHOTOS_DIR \o << "/" >> \o a = changedPath }

\* invalidateCoverCache(changedPath); ok = FALSE: redis.del fails, logged
invalidateCoverCache(changedPath, ok) ==
    /\ LET affectedPaths == getAllParentPaths(changedPath)
           cacheKeys == { invalidationKey(affectedPaths[i]) : i \in 1..Len(affectedPaths) }
       IN  redis' = IF ok THEN RemoveKeys(redis, cacheKeys) ELSE redis
    /\ cov' = IF ok THEN Disturbed(cov) ELSE cov
    /\ prev' = IF ok
               THEN [ NoPrev EXCEPT !.inv = prev.inv \cup AncestorAlbums(changedPath),
                                    !.log = prev.log,
                                    !.race = prev.race,
                                    !.updated = prev.updated,
                                    !.swept = IF prev.race
                                              THEN prev.swept \cup AncestorAlbums(changedPath)
                                              ELSE {},
                                    !.self = (prev.self \ AncestorAlbums(changedPath))
                                             \cup { a \in ChangedAlbum(changedPath) :
                                                      coverCacheKey(a) \in DOMAIN redis } ]
               ELSE prev
    /\ UNCHANGED << listVars, limiterVars, albumCovers, items, browseIndexesEnsured >>

\* the external indexer writes an album's row of album_covers
indexerUpsert(row) ==
    /\ row.album_path \in DOMAIN albumCovers => albumCovers[row.album_path] # row
    /\ albumCovers' = PutKey(albumCovers, row.album_path, row)
    /\ cov' = Disturbed(cov)
    /\ prev' = [ NoPrev EXCEPT !.inv = prev.inv, !.self = prev.self, !.log = prev.log,
                               !.race = prev.race,
                               !.updated = IF prev.race
                                           THEN prev.updated \cup { row.album_path } ELSE {},
                               !.swept = prev.swept \ { row.album_path } ]
    /\ UNCHANGED << listVars, limiterVars, redis, items, browseIndexesEnsured >>

\* the external indexer adds a media row to table items
indexerInsert(row) ==
    /\ row \notin items
    /\ items' = items \cup { row }
    /\ cov' = Disturbed(cov)
    /\ LET above == AncestorAlbums(pathJoin(PHOTOS_DIR, row.path))
       IN  prev' = [ NoPrev EXCEPT !.inv = prev.inv, !.self = prev.self, !.log = prev.log,
                                   !.race = prev.race,
                                   !.updated = IF prev.race THEN prev.updated \cup above ELSE {},
                                   !.swept = prev.swept \ above ]
    /\ UNCHANGED << listVars, limiterVars, redis, albumCovers, browseIndexesEnsured >>

\* album D_B and the media of albums D-B and D_B
RelDuB == << "D", "_", "B" >>
ItemDdBw == ItemRow(<< "D", "-", "B", "/", "w" >>, "photo", Num(2), Num(2), Num(7))
ItemDuBv == ItemRow(<< "D", "_", "B", "/", "v" >>, "photo", Num(3), Num(3), Num(1))

\* ------------------------------------------------------- directory listing
\* largest page size and largest page number requested
MaxPageSize == 3
MaxPage == 4
\* HOME_MAX_DEPTH of ../config
HOME_MAX_DEPTH == 1
\* Date.now() read by getDirectChildrenFromDb and the recency window
\* CACHE_CLEANUP_DAYS * 24 * 60 * 60 * 1000, both counted in hours
ListNow == 48
WindowMs == 24

\* characters in ASCII order, letters in lower case
Alphabet == << "-", ".", "/", "4", "_", "a", "b", "c", "d", "e", "m", "o", "p", "v", "w", "x" >>
CharRank(ch) == CHOOSE i \in 1..Len(Alphabet) : Alphabet[i] = Lower(ch)
\* COLLATE NOCASE / Intl.Collator with sensitivity 'base': -1, 0 or 1
RECURSIVE CompareNoCase(_, _)
CompareNoCase(a, b) ==
    IF a = << >> THEN (IF b = << >> THEN 0 ELSE -1)
    ELSE IF b = << >> THEN 1
    ELSE IF CharRank(Head(a)) < CharRank(Head(b)) THEN -1
    ELSE IF CharRank(Head(a)) > CharRank(Head(b)) THEN 1
    ELSE CompareNoCase(Tail(a), Tail(b))

\* one term of an ORDER BY: a number or a name, or NULL; NULL sorts first
\* in ascending and last in descending order
NullKey(desc) == [null |-> TRUE, n |-> 0, s |-> << >>, desc |-> desc]
NumKey(n, desc) == [null |-> FALSE, n |-> n, s |-> << >>, desc |-> desc]
NameKey(s, desc) == [null |-> FALSE, n |-> 0, s |-> s, desc |-> desc]
CompareKey(x, y) ==
    LET asc == IF x.null /\ y.null THEN 0
               ELSE IF x.null THEN -1
               ELSE IF y.null THEN 1
               ELSE IF x.n < y.n THEN -1
               ELSE IF x.n > y.n THEN 1
               ELSE CompareNoCase(x.s, y.s)
    IN  IF x.desc THEN 0 - asc ELSE asc
RECURSIVE CompareKeys(_, _)
CompareKeys(xs, ys) ==
    IF xs = << >> THEN 0
    ELSE IF CompareKey(Head(xs), Head(ys)) # 0 THEN CompareKey(Head(xs), Head(ys))
    ELSE CompareKeys(Tail(xs), Tail(ys))

\* Array.prototype.sort (stable) of seq, keys[i] being the terms seq[i] is
\* compared by
StableSort(seq, keys) ==
    LET Before(i, j) == LET c == CompareKeys(keys[i], keys[j])
                        IN  c < 0 \/ (c = 0 /\ i < j)
        At(k) == CHOOSE i \in 1..Len(seq) :
                    Cardinality({ j \in 1..Len(seq) : Before(j, i) }) = k - 1
    IN  [ k \in 1..Len(seq) |-> seq[At(k)] ]

\* number of '/' in a path: length(path) - length(replace(path, '/', ''))
Depth(p) == Cardinality({ i \in 1..Len(p) : p[i] = "/" })

\* the rows of table items that qualify as children of prefix
whereClause(prefix, home, r) ==
    IF prefix = << >> /\ home
    THEN (\E i \in 0..HOME_MAX_DEPTH : Depth(r.path) = i) /\ r.type = "album"
    ELSE IF prefix = << >>
    THEN Depth(r.path) = 0
    ELSE /\ Like(prefix \o << "/", "%" >>, r.path)
         /\ Depth(SubSeq(r.path, Len(prefix) + 2, Len(r.path))) = 0

\* SELECT COUNT(1) ... AND type IN ('album','photo','video')
CountChildren(prefix, home) ==
    Cardinality({ r \in items : whereClause(prefix, home, r)
                                /\ r.type \in { "album", "photo", "video" } })

\* a row of the union query; column name holds the last path segment
ResultRow(r) ==
    [ is_dir |-> IF r.type = "album" THEN 1 ELSE 0,
      name |-> Str(pathBasename(r.path)), path |-> r.path, mtime |-> r.mtime,
      width |-> r.width, height |-> r.height ]

DepthBucket(row) == NumKey(IF Depth(row.path) < 3 THEN Depth(row.path) ELSE 3, FALSE)
IsDirDesc(row) == NumKey(row.is_dir, TRUE)
Recent(row, dayAgo) == row.mtime.t = "number" /\ row.mtime.v > dayAgo
Stale(row, dayAgo) == row.mtime.t = "number" /\ row.mtime.v <= dayAgo
MtimeKey(row, desc) == IF row.mtime.t = "number" THEN NumKey(row.mtime.v, desc) ELSE NullKey(desc)
\* the smart terms: albums inside the window first and newest first, the
\* older albums by name, media by name
SmartKeysOldestFirst(row, dayAgo) ==
    << IsDirDesc(row),
       IF row.is_dir = 1 THEN NumKey(IF Recent(row, dayAgo) THEN 0 ELSE 1, FALSE)
       ELSE NullKey(FALSE),
       IF row.is_dir = 1 /\ Recent(row, dayAgo) THEN NumKey(row.mtime.v, FALSE)
       ELSE NullKey(FALSE),
       IF row.is_dir = 1 /\ Stale(row, dayAgo) THEN NameKey(row.name.s, FALSE)
       ELSE NullKey(FALSE),
       IF row.is_dir = 0 THEN NameKey(row.name.s, FALSE) ELSE NullKey(FALSE) >>
SmartKeys(row, dayAgo) ==
    << IsDirDesc(row),
       IF row.is_dir = 1 THEN NumKey(IF Recent(row, dayAgo) THEN 0 ELSE 1, FALSE)
       ELSE NullKey(FALSE),
       IF row.is_dir = 1 /\ Recent(row, dayAgo) THEN NumKey(row.mtime.v, TRUE)
       ELSE NullKey(TRUE),
       IF row.is_dir = 1 /\ Stale(row, dayAgo) THEN NameKey(row.name.s, FALSE)
       ELSE NullKey(FALSE),
       IF row.is_dir = 0 THEN NameKey(row.name.s, FALSE) ELSE NullKey(FALSE) >>

\* the ORDER BY terms of each sort mode
orderByNameOnly(sort, prefix, home, dayAgo, row) ==
    << NameKey(row.name.s, sort = "name_desc") >>
orderBy(sort, prefix, home, dayAgo, row) ==
    LET deep == prefix = << >> /\ home
    IN  IF sort = "name_asc"
        THEN (IF deep THEN << DepthBucket(row) >> ELSE << >>)
             \o << IsDirDesc(row), NameKey(row.name.s, FALSE) >>
        ELSE IF sort = "name_desc"
        THEN (IF deep THEN << DepthBucket(row) >> ELSE << >>)
             \o << IsDirDesc(row), NameKey(row.name.s, TRUE) >>
        ELSE IF sort = "mtime_asc" THEN << IsDirDesc(row), MtimeKey(row, FALSE) >>
        ELSE IF sort = "mtime_desc" THEN << IsDirDesc(row), MtimeKey(row, TRUE) >>
        ELSE IF sort = "viewed_desc" THEN << IsDirDesc(row), NameKey(row.name.s, FALSE) >>
        ELSE IF deep THEN << DepthBucket(row) >> \o SmartKeys(row, dayAgo)
        ELSE IF prefix = << >> THEN SmartKeys(row, dayAgo)
        ELSE << IsDirDesc(row), NameKey(row.name.s, FALSE) >>

\* the name_asc ORDER BY of the recursive home page carries '//' remarks
\* inside the SQL text, which SQLite does not accept as comments
SqlRejected(sort, prefix, home) == sort = "name_asc" /\ prefix = << >> /\ home

\* the rows of the union query in table order (by path), then ORDER BY;
\* rows equal in every ORDER BY term keep an order SQLite does not specify
SetToSeq(S) ==
    LET Rank(x) == Cardinality({ y \in S : CompareNoCase(y.path, x.path) < 0 })
    IN  [ k \in 1..Cardinality(S) |-> CHOOSE x \in S : Rank(x) = k - 1 ]
OrderedChildren(prefix, home, sort, dayAgo) ==
    LET rows == { ResultRow(r) : r \in { x \in items : whereClause(prefix, home, x)
                                                      /\ x.type \in { "album", "photo", "video" } } }
        table == SetToSeq(rows)
    IN  StableSort(table, [ i \in 1..Len(table) |-> orderBy(sort, prefix, home, dayAgo, table[i]) ])
\* LIMIT ? OFFSET ?
LimitOffset(seq, limit, offset) ==
    IF offset >= Len(seq) THEN << >>
    ELSE SubSeq(seq, offset + 1, IF offset + limit < Len(seq) THEN offset + limit ELSE Len(seq))

\* /\.(mp4|webm|mov)$/i on a name
endsWithNoCase(s, suffix) ==
    /\ Len(suffix) <= Len(s)
    /\ \A i \in 1..Len(suffix) : Lower(s[Len(s) - Len(suffix) + i]) = suffix[i]
isVideoName(name) ==
    \/ endsWithNoCase(name, << ".", "m", "p", "4" >>)
    \/ endsWithNoCase(name, << ".", "w", "e", "b", "m" >>)
    \/ endsWithNoCase(name, << ".", "m", "o", "v" >>)

\* Math.ceil(a / b) for b >= 1
MathCeil(a, b) == (a + b - 1) \div b

\* pc: idle, stat, count, rows, history, hlsFs, hlsDb, covers, returned, thrown
\* accessed, fetched, resorted, sum are history fields: the stores the call
\* touched, the page as the query returned it, whether the history re-sort was
\* applied, the items returned by pages 1..page of this listing, the
\* readiness checks that failed, and the << totalResults, totalPages >>
\* reported by the pages of this listing that the index answered
NoResult == [items |-> << >>, totalPages |-> 0, totalResults |-> 0]
EmptyResult == [items |-> << >>, totalPages |-> 1, totalResults |-> 0]
IdleListing ==
    [ pc |-> "idle", relativePathPrefix |-> << >>, page |-> 0, limit |-> 0,
      userId |-> Undefined, sort |-> "smart", total |-> 0, rows |-> << >>,
      rowsEffective |-> << >>, hlsReadySet |-> {}, result |-> NoResult,
      error |-> "none", accessed |-> {}, fetched |-> << >>, resorted |-> FALSE,
      sum |-> 0, failed |-> {}, totals |-> {} ]

AlbumRows(rows) == SelectSeq(rows, LAMBDA r : r.is_dir = 1)
MediaRows(rows) == SelectSeq(rows, LAMBDA r : r.is_dir = 0)
VideoRows(rows) == SelectSeq(rows, LAMBDA r : r.is_dir = 0 /\ isVideoName(r.name.s))
Paths(rows) == { rows[i].path : i \in 1..Len(rows) }

\* return { items: [], totalPages: 1, totalResults: 0 }
ReturnEmpty(q) ==
    [ q EXCEPT !.pc = "returned", !.result = EmptyResult, !.rows = << >>,
               !.rowsEffective = << >>, !.total = 0 ]
Throw(q, error) ==
    [ q EXCEPT !.pc = "thrown", !.error = error, !.rows = << >>, !.rowsEffective = << >>,
               !.total = 0 ]

\* getDirectoryContents up to fs.stat: the safety check. A listing is asked
\* for page 1, and for the page after one that the index answered.
getDirectoryContentsUnchecked(relativePathPrefix, page, limit, userId, sort) ==
    /\ cov[1].pc = "idle"
    /\ \/ listing.pc = "idle" /\ page = 1
       \/ /\ listing.pc = "returned"
          /\ "index" \in listing.accessed
          /\ page = listing.page + 1
          /\ << relativePathPrefix, limit, userId, sort >>
               = << listing.relativePathPrefix, listing.limit, listing.userId, listing.sort >>
    /\ page <= MaxPage
    /\ LET q == [ IdleListing EXCEPT !.relativePathPrefix = relativePathPrefix,
                                     !.page = page, !.limit = limit, !.userId = userId,
                                     !.sort = sort, !.sum = listing.sum,
                                     !.totals = listing.totals ]
       IN  listing' = [ q EXCEPT !.pc = "stat" ]
    /\ UNCHANGED << dimVars, coverVars, dirs, viewHistory, processedVideos, hlsFiles, config >>
getDirectoryContents(relativePathPrefix, page, limit, userId, sort) ==
    /\ cov[1].pc = "idle"
    /\ \/ listing.pc = "idle" /\ page = 1
       \/ /\ listing.pc = "returned"
          /\ "index" \in listing.accessed
          /\ page = listing.page + 1
          /\ << relativePathPrefix, limit, userId, sort >>
               = << listing.relativePathPrefix, listing.limit, listing.userId, listing.sort >>
    /\ page <= MaxPage
    /\ LET q == [ IdleListing EXCEPT !.relativePathPrefix = relativePathPrefix,
                                     !.page = page, !.limit = limit, !.userId = userId,
                                     !.sort = sort, !.sum = listing.sum,
                                     !.totals = listing.totals ]
       IN  listing' = IF ~isPathSafe(relativePathPrefix) THEN Throw(q, "unsafe")
                      ELSE [ q EXCEPT !.pc = "stat" ]
    /\ UNCHANGED << dimVars, coverVars, dirs, viewHistory, processedVideos, hlsFiles, config >>

\* validateDirectory: fs.stat settles (ok = FALSE: it fails, stats is null)
validateDirectory(ok) ==
    /\ listing.pc = "stat"
    /\ LET directory == pathJoin(PHOTOS_DIR, listing.relativePathPrefix)
           q == [ listing EXCEPT !.accessed = listing.accessed \cup { "fs" } ]
       IN  listing' = IF ok /\ directory \in dirs THEN [ q EXCEPT !.pc = "count" ]
                      ELSE IF listing.relativePathPrefix = << >> THEN ReturnEmpty(q)
                      ELSE Throw(q, "notfound")
    /\ UNCHANGED << dimVars, coverVars, dirs, viewHistory, processedVideos, hlsFiles, config >>

\* getDirectChildrenFromDb: ensureBrowseIndexes, then the COUNT query
\* settles (ok = FALSE: the index is unreachable, the call rejects)
countDone(ok) ==
    /\ listing.pc = "count"
    /\ browseIndexesEnsured' = (browseIndexesEnsured \/ ok)
    /\ LET prefix == ReplaceBackslashes(listing.relativePathPrefix)
           q == [ listing EXCEPT !.accessed = listing.accessed \cup { "index" } ]
       IN  listing' = IF ok
                      THEN [ q EXCEPT !.pc = "rows",
                                      !.total = CountChildren(prefix, config.HOME_SHOW_SUBDIRS) ]
                      ELSE Throw(q, "index")
    /\ UNCHANGED << dimVars, albumCovers, items, cov, prev, dirs, viewHistory,
                    processedVideos, hlsFiles, config >>

\* processHlsStatus up to its first await
AfterSorting(q) ==
    IF VideoRows(q.rowsEffective) = << >> THEN [ q EXCEPT !.pc = "covers" ]
    ELSE IF config.USE_FILE_SYSTEM_HLS_CHECK THEN [ q EXCEPT !.pc = "hlsFs" ]
    ELSE [ q EXCEPT !.pc = "hlsDb" ]

\* processSorting up to the view_history query
needViewedSort(q) ==
    q.sort = "viewed_desc" \/ (q.sort = "smart" /\ Len(q.relativePathPrefix) > 0)
AfterRows(q) ==
    IF ~needViewedSort(q) \/ ~Truthy(q.userId) \/ AlbumRows(q.rows) = << >>
    THEN AfterSorting([ q EXCEPT !.rowsEffective = q.rows ])
    ELSE [ q EXCEPT !.pc = "history" ]

\* the union query settles; getDirectoryContents goes on to processSorting
rowsDone(ok) ==
    /\ listing.pc = "rows"
    /\ LET prefix == ReplaceBackslashes(listing.relativePathPrefix)
           home == config.HOME_SHOW_SUBDIRS
           dayAgo == ListNow - WindowMs
           offset == (listing.page - 1) * listing.limit
           rows == LimitOffset(OrderedChildren(prefix, home, listing.sort, dayAgo),
                               listing.limit, offset)
           q == [ listing EXCEPT !.rows = rows, !.fetched = rows ]
           e == [ q EXCEPT !.totals = q.totals \cup { << EmptyResult.totalResults,
                                                         EmptyResult.totalPages >> } ]
       IN  listing' = IF ~ok THEN Throw(listing, "index")
                      ELSE IF SqlRejected(listing.sort, prefix, home) THEN Throw(listing, "sql")
                      ELSE IF listing.total = 0 \/ rows = << >> THEN ReturnEmpty(e)
                      ELSE AfterRows(q)
    /\ UNCHANGED << dimVars, coverVars, dirs, viewHistory, processedVideos, hlsFiles, config >>

\* MAX(viewed_at) of the user's views of a path, 0 when there is none
lastViewed(userId, path) ==
    LET at == { v.viewed_at : v \in { x \in viewHistory : x.user_id = userId
                                                        /\ x.item_path = path } }
    IN  IF at = {} THEN 0 ELSE CHOOSE m \in at : \A n \in at : n <= m

\* the re-sort of processSorting: albums by last view, newest first, then by
\* name; media by name
resortKeepingPage(rows, userId) == rows
resort(rows, userId) ==
    LET albumRows == AlbumRows(rows)
        mediaRows == MediaRows(rows)
        AlbumKeys(row) == << NumKey(lastViewed(userId, row.path), TRUE),
                             NameKey(row.name.s, FALSE) >>
        MediaKeys(row) == << NameKey(row.name.s, FALSE) >>
    IN  StableSort(albumRows, [ i \in 1..Len(albumRows) |-> AlbumKeys(albumRows[i]) ])
        \o StableSort(mediaRows, [ i \in 1..Len(mediaRows) |-> MediaKeys(mediaRows[i]) ])

\* the view_history query settles (ok = FALSE: the page order is kept)
historyDoneRaising(ok) ==
    /\ listing.pc = "history"
    /\ LET q == [ listing EXCEPT !.accessed = listing.accessed \cup { "history" },
                                 !.resorted = ok,
                                 !.rowsEffective = IF ok THEN resort(listing.rows, listing.userId.s)
                                                   ELSE listing.rows ]
       IN  listing' = IF ok THEN AfterSorting(q) ELSE Throw(q, "history")
    /\ UNCHANGED << dimVars, coverVars, dirs, viewHistory, processedVideos, hlsFiles, config >>
historyDone(ok) ==
    /\ listing.pc = "history"
    /\ LET q == [ listing EXCEPT !.accessed = listing.accessed \cup { "history" },
                                 !.resorted = ok,
                                 !.rowsEffective = IF ok THEN resort(listing.rows, listing.userId.s)
                                                   ELSE listing.rows ]
       IN  listing' = AfterSorting(q)
    /\ UNCHANGED << dimVars, coverVars, dirs, viewHistory, processedVideos, hlsFiles, config >>

\* batchCheckHlsStatus settles (ok = FALSE: fallbackToDatabaseCheck follows)
hlsFsDoneNoFallback(ok) ==
    /\ listing.pc = "hlsFs"
    /\ LET q == [ listing EXCEPT !.accessed = listing.accessed \cup { "fs", "hls" },
                                 !.failed = IF ok THEN listing.failed
                                            ELSE listing.failed \cup { "hls" } ]
       IN  listing' = IF ok
                      THEN [ q EXCEPT !.pc = "covers",
                                      !.hlsReadySet = hlsFiles \cap Paths(VideoRows(q.rowsEffective)) ]
                      ELSE [ q EXCEPT !.pc = "covers" ]
    /\ UNCHANGED << dimVars, coverVars, dirs, viewHistory, processedVideos, hlsFiles, config >>
hlsFsDone(ok) ==
    /\ listing.pc = "hlsFs"
    /\ LET q == [ listing EXCEPT !.accessed = listing.accessed \cup { "fs", "hls" },
                                 !.failed = IF ok THEN listing.failed
                                            ELSE listing.failed \cup { "hls" } ]
       IN  listing' = IF ok
                      THEN [ q EXCEPT !.pc = "covers",
                                      !.hlsReadySet = hlsFiles \cap Paths(VideoRows(q.rowsEffective)) ]
                      ELSE [ q EXCEPT !.pc = "hlsDb" ]
    /\ UNCHANGED << dimVars, coverVars, dirs, viewHistory, processedVideos, hlsFiles, config >>

\* fallbackToDatabaseCheck: the processed_videos query settles (ok = FALSE:
\* swallowed)
fallbackToDatabaseCheck(ok) ==
    /\ listing.pc = "hlsDb"
    /\ LET q == [ listing EXCEPT !.accessed = listing.accessed \cup { "index", "markers" },
                                 !.failed = IF ok THEN listing.failed
                                            ELSE listing.failed \cup { "markers" } ]
       IN  listing' = [ q EXCEPT !.pc = "covers",
                                 !.hlsReadySet =
                                     IF ok THEN processedVideos \cap Paths(VideoRows(q.rowsEffective))
                                     ELSE {} ]
    /\ UNCHANGED << dimVars, coverVars, dirs, viewHistory, processedVideos, hlsFiles, config >>

\* processAlbumCovers: findCoverPhotosBatchDb on the page's album paths
processAlbumCovers(ok) ==
    /\ listing.pc = "covers"
    /\ LET albumRows == AlbumRows(listing.rowsEffective)
       IN  findCoverPhotosBatchDb(1, [ i \in 1..Len(albumRows) |-> albumRows[i].path ], ok)

\* buildMediaItem for a row whose index dimensions are valid and whose
\* mtime is set: no fs.stat, no cache read, no probe
SplitEncodeJoin(p) ==
    JoinSegments([ i \in 1..Len(Split(p)) |-> encodeURIComponent(Split(p)[i]) ])
mediaItem(row, hlsReadySet) ==
    LET isVideo == isVideoName(OrElse(row.name, Str(pathBasename(row.path))).s)
        q == getMediaDimensions([ IdleReq EXCEPT !.path = row.path, !.mtime = row.mtime.v,
                                                 !.dbDimensions = Dims(row.width, row.height) ])
    IN  [ type |-> IF isVideo THEN "video" ELSE "photo",
          originalUrl |-> << "/static/" >> \o SplitEncodeJoin(row.path),
          thumbnailUrl |-> << "/api/thumbnail?path=" >> \o encodeURIComponent(row.path)
                           \o << "&v=" >> \o NumberToString(row.mtime.v),
          width |-> q.dimensions.width, height |-> q.dimensions.height,
          mtime |-> row.mtime,
          hlsReady |-> IF isVideo THEN row.path \in hlsReadySet ELSE FALSE ]

\* Math.ceil(totalResults / limit) || 1
totalPagesOf(totalResults, limit) ==
    IF MathCeil(totalResults, limit) = 0 THEN 1 ELSE MathCeil(totalResults, limit)

\* buildItems once the covers are resolved, and the return of
\* getDirectoryContents
buildItems ==
    /\ listing.pc = "covers"
    /\ cov[1].pc = "done"
    /\ LET rows == listing.rowsEffective
           built == [ i \in 1..Len(rows) |->
                        IF rows[i].is_dir = 1
                        THEN buildAlbumItem(rows[i], cov[1].coversMap, rows[i].path, DateNow)
                        ELSE mediaItem(rows[i], listing.hlsReadySet) ]
       IN  listing' = [ listing EXCEPT
                          !.pc = "returned",
                          !.result = [ items |-> built,
                                       totalPages |-> totalPagesOf(listing.total, listing.limit),
                                       totalResults |-> listing.total ],
                          !.sum = listing.sum + Len(built),
                          !.totals = listing.totals
                                     \cup { << listing.total,
                                               totalPagesOf(listing.total, listing.limit) >> },
                          !.accessed = listing.accessed \cup { "index", "cache" } ]
    /\ cov' = [ cov EXCEPT ![1] = IdleCall ]
    /\ UNCHANGED << dimVars, albumCovers, items, browseIndexesEnsured, prev, dirs,
                    viewHistory, processedVideos, hlsFiles, config >>

\* the listing world: three root albums A (modified now), B (40 hours ago)
\* and C (2 hours ago); C holds two albums, a photo and a video
Ca == << "C", "/", "a" >>
Cb == << "C", "/", "b" >>
Ce == << "C", "/", "e" >>
Cvideo == << "C", "/", "c", ".", "m", "p", "4" >>
ListWorld ==
    { ItemRow(<< "A" >>, "album", JNull, JNull, Num(ListNow)),
      ItemRow(<< "B" >>, "album", JNull, JNull, Num(ListNow - 40)),
      ItemRow(<< "C" >>, "album", JNull, JNull, Num(ListNow - 2)),
      ItemRow(Cb, "album", JNull, JNull, Num(30)),
      ItemRow(Ce, "album", JNull, JNull, Num(10)),
      ItemRow(Ca, "photo", Num(2), Num(3), Num(20)),
      ItemRow(Cvideo, "video", Num(4), Num(4), Num(40)) }
\* two sibling albums whose names differ in one character, '_' against '-'
SiblingWorld ==
    { ItemRow(RelDuB, "album", JNull, JNull, Num(12)),
      ItemRow(<< "D", "-", "B" >>, "album", JNull, JNull, Num(14)),
      ItemDuBv, ItemDdBw }
ListDirs ==
    { pathJoin(PHOTOS_DIR, r.path) : r \in { x \in ListWorld \cup SiblingWorld : x.type = "album" } }
    \cup { PHOTOS_DIR }
User == Str(<< "u" >>)
ListPrefixes == { << >>, << "C" >>, RelDuB, << ".", ".", "/", "C" >>, << "X" >> }
SortModes == { "smart", "name_asc", "name_desc", "mtime_asc", "mtime_desc", "viewed_desc" }

\* no listing is made
NoListing ==
    /\ listing = IdleListing
    /\ dirs = {}
    /\ viewHistory = {}
    /\ processedVideos = {}
    /\ hlsFiles = {}
    /\ config = [HOME_SHOW_SUBDIRS |-> FALSE, USE_FILE_SYSTEM_HLS_CHECK |-> FALSE]

\* ------------------------------------------------------- specifications
EmptyComputed == [ pm \in {} |-> NoDims ]

\* the state in which no cover lookup has been made
CoverInit ==
    /\ albumCovers = EmptyStore
    /\ items = ItemsWorld
    /\ browseIndexesEnsured = FALSE
    /\ cov = [ c \in Calls |-> IdleCall ]
    /\ prev = NoPrev

LimiterInit ==
    /\ maxConcurrent \in 1..MaxLimit
    /\ activeCount = 0
    /\ pendingQueue = << >>
    /\ microtasks = << >>
    /\ req = [ r \in Reqs |-> IdleReq ]
    /\ scheduled = << >>
    /\ started = << >>
    /\ computed = EmptyComputed

\* the limiter with callers that go straight to calculateDimensions
Init ==
    /\ LimiterInit
    /\ NoListing
    /\ redis = EmptyStore
    /\ CoverInit

Next ==
    \/ \E r \in Reqs : limitDimensionProbe(r)
    \/ RunFn
    \/ \E r \in Reqs, out \in ProbeOutcomes : ProbeSettles(r, out)
    \/ RunSettle
    \/ RunFinally

Spec == Init /\ [][Next]_vars

\* every queued reaction runs, and every started probe settles
FairSpec ==
    /\ Spec
    /\ WF_vars(RunFn)
    /\ WF_vars(RunSettle)
    /\ WF_vars(RunFinally)
    /\ \A r \in Reqs : WF_vars(\E out \in ProbeOutcomes : ProbeSettles(r, out))

\* the dimension resolver: buildMediaItem calls over a store that may hold
\* an entry left by an earlier process
DimInit ==
    /\ LimiterInit
    /\ NoListing
    /\ redis \in { EmptyStore } \cup
                 { PutKey(EmptyStore, generateCacheKey(<< "a" >>, 1), e) : e \in StaleEntries }
    /\ CoverInit

DimNext ==
    \/ \E r \in Reqs, path \in MediaPaths, m \in FileMtimes \cup {0}, d \in DbDimensions :
          buildMediaItem(r, path, m, d)
    \/ \E r \in Reqs, m \in FileMtimes \cup {0} : statDone(r, m)
    \/ \E r \in Reqs, ok \in BOOLEAN : redisGetDone(r, ok)
    \/ RunFn
    \/ \E r \in Reqs, out \in ProbeOutcomes : ProbeSettles(r, out)
    \/ RunSettle
    \/ RunFinally
    \/ \E r \in Reqs : resume(r)
    \/ \E r \in Reqs, ok \in BOOLEAN : redisSetDone(r, ok)
    \/ \E k \in DOMAIN redis : expire(k)

DimSpec == DimInit /\ [][DimNext]_vars

\* the cover resolver and the invalidator over an index whose cover table is
\* empty or holds album A, and a store that may hold entries of an earlier run
CoverSpecInit ==
    /\ LimiterInit
    /\ NoListing
    /\ maxConcurrent = MaxLimit
    /\ redis \in { EmptyStore,
                   PutKey(EmptyStore, coverCacheKey(RelA), StaleCover),
                   PutKey(EmptyStore, coverCacheKey(RelA), Garbage) }
    /\ albumCovers \in { EmptyStore, PutKey(EmptyStore, RelA, RowAx) }
    /\ items = ItemsWorld
    /\ browseIndexesEnsured = FALSE
    /\ cov = [ c \in Calls |-> IdleCall ]
    /\ prev = NoPrev

CoverNext ==
    \/ \E c \in Calls, relativeDirs \in BatchInputs, ok \in BOOLEAN :
          findCoverPhotosBatchDb(c, relativeDirs, ok)
    \/ \E c \in Calls, ok \in BOOLEAN : mgetDone(c, ok)
    \/ \E c \in Calls, ok \in BOOLEAN : tableDone(c, ok)
    \/ \E c \in Calls, ok \in BOOLEAN : tableSetDone(c, ok)
    \/ \E c \in Calls, ok \in BOOLEAN : itemsDone(c, ok)
    \/ \E c \in Calls, ok \in BOOLEAN : itemsSetDone(c, ok)
    \/ \E p \in ChangedPaths, ok \in BOOLEAN : invalidateCoverCache(p, ok)
    \/ \E row \in IndexerRows : indexerUpsert(row)

CoverSpec == CoverSpecInit /\ [][CoverNext]_vars

\* one findCoverPhotosBatchDb call with its operations recorded, over an index
\* that also holds album D-B next to album D_B (with or without media of its
\* own)
LoggedInputs == { << RelUp >>, << RelUp, RelC >>, << RelUp, RelA >>, << RelABwin, RelA >>, << RelC, RelAB, RelA >>,
                  << RelDuB, RelA >> }
BatchInit ==
    /\ LimiterInit
    /\ NoListing
    /\ maxConcurrent = MaxLimit
    /\ redis \in { EmptyStore,
                   PutKey(EmptyStore, coverCacheKey(RelA), StaleCover),
                   PutKey(EmptyStore, coverCacheKey(RelA), Garbage) }
    /\ albumCovers \in { EmptyStore, PutKey(EmptyStore, RelA, RowAx),
                         PutKey(EmptyStore, RelA, RowAz) }
    /\ items \in { ItemsWorld \cup { ItemDdBw }, ItemsWorld \cup { ItemDdBw, ItemDuBv } }
    /\ browseIndexesEnsured = FALSE
    /\ cov = [ c \in Calls |-> IdleCall ]
    /\ prev = [ NoPrev EXCEPT !.log = TRUE ]

BatchNext ==
    \/ \E relativeDirs \in LoggedInputs, ok \in BOOLEAN :
          findCoverPhotosBatchDb(1, relativeDirs, ok)
    \/ \E ok \in BOOLEAN : mgetDone(1, ok)
    \/ \E ok \in BOOLEAN : tableDone(1, ok)
    \/ \E ok \in BOOLEAN : tableSetDone(1, ok)
    \/ \E ok \in BOOLEAN : itemsDone(1, ok)
    \/ \E ok \in BOOLEAN : itemsSetDone(1, ok)

BatchSpec == BatchInit /\ [][BatchNext]_vars
\* every awaited operation of the call settles
FairBatchSpec == BatchSpec /\ WF_vars(BatchNext)

\* the invalidator over a store that holds cover entries of albums A and A/B
\* and a dimension entry, with one resolver call that can fill the cache again
InvInit ==
    /\ LimiterInit
    /\ NoListing
    /\ maxConcurrent = MaxLimit
    /\ redis = PutKey(PutKey(PutKey(EmptyStore,
                                    generateCacheKey(<< "a" >>, 1),
                                    JSONstringifyDims(Dims(Num(2), Num(3)))),
                             coverCacheKey(RelA), StaleCover),
                      coverCacheKey(RelAB), StaleCover)
    /\ albumCovers \in { EmptyStore, PutKey(EmptyStore, RelA, RowAx) }
    /\ items = ItemsWorld
    /\ browseIndexesEnsured = FALSE
    /\ cov = [ c \in Calls |-> IdleCall ]
    /\ prev = NoPrev

InvNext ==
    \/ \E p \in InvalidatedPaths, ok \in BOOLEAN : invalidateCoverCache(p, ok)
    \/ \E relativeDirs \in BatchInputs, ok \in BOOLEAN :
          findCoverPhotosBatchDb(1, relativeDirs, ok)
    \/ \E ok \in BOOLEAN : mgetDone(1, ok)
    \/ \E ok \in BOOLEAN : tableDone(1, ok)
    \/ \E ok \in BOOLEAN : tableSetDone(1, ok)
    \/ \E ok \in BOOLEAN : itemsDone(1, ok)
    \/ \E ok \in BOOLEAN : itemsSetDone(1, ok)

InvSpec == InvInit /\ [][InvNext]_vars

\* one resolver call next to one change of album A's cover in the index (its
\* album_covers row, or a newer media row when the table is empty) that is
\* followed by the invalidation of a path below A
RaceInputs == { << RelA >>, << RelAB, RelA >> }
ItemAn == ItemRow(<< "A", "/", "n" >>, "photo", Num(4), Num(4), Num(9))
RacePaths == { << "/", "p", "/", "A", "/", "n" >>, << "/", "p", "/", "A", "/", "B", "/", "y" >> }
RaceInit ==
    /\ LimiterInit
    /\ NoListing
    /\ maxConcurrent = MaxLimit
    /\ albumCovers \in { EmptyStore, PutKey(EmptyStore, RelA, RowAx) }
    /\ redis \in { EmptyStore,
                   PutKey(EmptyStore, coverCacheKey(RelA),
                          JSONstringifyInfo(TableRowInfo(RowAx, DateNow))) }
    /\ items = ItemsWorld
    /\ browseIndexesEnsured = FALSE
    /\ cov = [ c \in Calls |-> IdleCall ]
    /\ prev = [ NoPrev EXCEPT !.race = TRUE ]

RaceNext ==
    \/ \E relativeDirs \in RaceInputs, ok \in BOOLEAN :
          findCoverPhotosBatchDb(1, relativeDirs, ok)
    \/ \E ok \in BOOLEAN : mgetDone(1, ok)
    \/ \E ok \in BOOLEAN : tableDone(1, ok)
    \/ \E ok \in BOOLEAN : tableSetDone(1, ok)
    \/ \E ok \in BOOLEAN : itemsDone(1, ok)
    \/ \E ok \in BOOLEAN : itemsSetDone(1, ok)
    \/ prev.updated = {} /\ RelA \in DOMAIN albumCovers /\ indexerUpsert(RowAz)
    \/ prev.updated = {} /\ RelA \notin DOMAIN albumCovers /\ indexerInsert(ItemAn)
    \/ \E p \in RacePaths, ok \in BOOLEAN :
          prev.updated # {} /\ prev.swept = {} /\ invalidateCoverCache(p, ok)

RaceSpec == RaceInit /\ [][RaceNext]_vars

\* the listing: pages 1, 2, .. of one directory requested one after another
\* over an index, a filesystem and a view history that do not change
CoverRowC == CoverRow(<< "C" >>, Ca, Num(2), Num(3), Num(20))
ViewRow(u, p, at) == [user_id |-> u, item_path |-> p, viewed_at |-> at]
ListInit ==
    /\ maxConcurrent = MaxLimit
    /\ activeCount = 0
    /\ pendingQueue = << >>
    /\ microtasks = << >>
    /\ req = [ r \in Reqs |-> IdleReq ]
    /\ scheduled = << >>
    /\ started = << >>
    /\ computed = EmptyComputed
    /\ redis = EmptyStore
    /\ albumCovers = PutKey(EmptyStore, << "C" >>, CoverRowC)
    /\ items \in { ListWorld, ListWorld \cup SiblingWorld }
    /\ browseIndexesEnsured = FALSE
    /\ cov = [ c \in Calls |-> IdleCall ]
    /\ prev = NoPrev
    /\ listing = IdleListing
    /\ dirs \in { ListDirs, {} }
    /\ viewHistory = { ViewRow(<< "u" >>, Ce, 1), ViewRow(<< "u" >>, Ce, 3),
                       ViewRow(<< "w" >>, Cb, 5) }
    /\ processedVideos = { Cvideo, << "C", "/", "o", ".", "m", "p", "4" >> }
    /\ hlsFiles \in { {}, { Cvideo } }
    /\ config \in [ HOME_SHOW_SUBDIRS : BOOLEAN, USE_FILE_SYSTEM_HLS_CHECK : BOOLEAN ]

ListNext ==
    \/ \E relativePathPrefix \in ListPrefixes, page \in 1..MaxPage, limit \in 1..MaxPageSize,
          userId \in { Undefined, User }, sort \in SortModes :
          getDirectoryContents(relativePathPrefix, page, limit, userId, sort)
    \/ \E ok \in BOOLEAN : validateDirectory(ok)
    \/ \E ok \in BOOLEAN : countDone(ok)
    \/ \E ok \in BOOLEAN : rowsDone(ok)
    \/ \E ok \in BOOLEAN : historyDone(ok)
    \/ \E ok \in BOOLEAN : hlsFsDone(ok)
    \/ \E ok \in BOOLEAN : fallbackToDatabaseCheck(ok)
    \/ \E ok \in BOOLEAN : processAlbumCovers(ok)
    \/ mgetDone(1, TRUE)
    \/ tableDone(1, TRUE)
    \/ tableSetDone(1, TRUE)
    \/ itemsDone(1, TRUE)
    \/ itemsSetDone(1, TRUE)
    \/ buildItems

ListSpec == ListInit /\ [][ListNext]_vars

\* ------------------------------------------------------ limiter properties
Running == { r \in Reqs : req[r].pc = "running" }
Settled(r) == req[r].promise \in { "fulfilled", "rejected" }
FinallyPending == { microtasks[i].job : i \in { n \in 1..Len(microtasks) : microtasks[n].kind = "finally" } }
\* jobs taken from the queue whose slot has not been given back yet
HoldingSlot == { r \in Reqs : req[r].pc \in { "starting", "running", "settling" } }
               \cup FinallyPending
InSeq(seq, x) == \E i \in 1..Len(seq) : seq[i] = x

\* C1: the number of dimension probes running at the same time never
\* exceeds the configured limit (nor does the limiter's own count of taken
\* slots); with limit 1 a probe runs only when every probe started before it
\* has completed.
C1_ProbeBound ==
    /\ Cardinality(Running) <= maxConcurrent
    /\ activeCount <= maxConcurrent
    /\ maxConcurrent = 1 =>
         \A r \in Running : \A i \in 1..Len(started) :
             started[i] # r => req[started[i]].pc \in { "settling", "settled", "set", "done" }

C1_Witness ==
    /\ maxConcurrent = 1
    /\ req[1].pc = "settled"
    /\ req[2].pc = "running"
    /\ pendingQueue = << 3 >>

\* C2: under fair scheduling of reactions and with every started probe
\* settling, every scheduled task is eventually started and its caller's
\* promise is eventually settled, and the limiter drains: the queue
\* becomes empty and the running count returns to 0.
C2_Liveness ==
    /\ \A r \in Reqs : (req[r].pc = "queued") ~> InSeq(started, r)
    /\ \A r \in Reqs : InSeq(scheduled, r) ~> Settled(r)
    /\ (pendingQueue # << >> \/ activeCount > 0) ~> (pendingQueue = << >> /\ activeCount = 0)

C2_Witness ==
    /\ Len(scheduled) = NJobs
    /\ \A r \in 1..NJobs : Settled(r)
    /\ Len(started) = NJobs
    /\ pendingQueue = << >>
    /\ activeCount = 0

\* C3: tasks are started in the order of their schedule calls: the
\* sequence of started jobs is a prefix of the sequence of scheduled jobs,
\* whatever the outcomes of the tasks.
C3_Fifo ==
    /\ Len(started) <= Len(scheduled)
    /\ \A i \in 1..Len(started) : started[i] = scheduled[i]

C3_Witness ==
    /\ Len(started) = 3
    /\ maxConcurrent = 1
    /\ req[1].promise = "rejected"
    /\ req[2].promise = "fulfilled"

\* C4: the caller's promise settles with the task's own outcome; a slot is
\* held exactly by the jobs taken from the queue whose finally reaction has
\* not run, whether they succeeded or failed; no job waits while a slot is
\* free; a promise is rejected only by its own task's failure.
C4_OwnOutcome ==
    /\ \A r \in Reqs : Settled(r) =>
          /\ (req[r].promise = "fulfilled") = req[r].task.ok
          /\ req[r].value = req[r].task.value
    /\ activeCount = Cardinality(HoldingSlot)
    /\ pendingQueue # << >> => activeCount = maxConcurrent
    /\ \A r \in Reqs : InSeq(pendingQueue, r) => req[r].promise = "pending"

C4_Witness ==
    /\ maxConcurrent = 1
    /\ req[1].promise = "rejected"
    /\ req[2].promise = "fulfilled"
    /\ req[2].value = Dims(Num(2), Num(3))
    /\ req[3].pc = "running"
    /\ activeCount = 1

\* --------------------------------------------- dimension resolver properties
Done(r) == req[r].pc = "done"
KeyOf(r) == generateCacheKey(req[r].path, req[r].mtime)
BothPositive(d) ==
    /\ d.width.t = "number" /\ d.width.v > 0
    /\ d.height.t = "number" /\ d.height.v > 0
\* the store holds, under k, a text that parses to two positive numbers
ValidEntry(k) ==
    /\ k \in DOMAIN redis
    /\ redis[k].kind = "json"
    /\ BothPositive(Dims(Member(redis[k].members, "width"), Member(redis[k].members, "height")))
Leaves(r, pc) == req[r].pc = pc /\ req'[r].pc # pc

C5_TierOrderState ==
    \A r \in Reqs :
       /\ req[r].pc = "get" => ~BothPositive(req[r].dbDimensions)
       /\ (Done(r) /\ req[r].tier = "index") =>
             /\ BothPositive(req[r].dbDimensions)
             /\ req[r].dimensions = req[r].dbDimensions
             /\ ~req[r].cacheRead
             /\ ~InSeq(scheduled, r)
       /\ (Done(r) /\ req[r].tier = "cache") =>
             /\ BothPositive(req[r].dimensions)
             /\ ~InSeq(scheduled, r)
C5_TierOrderStep ==
    \A r \in Reqs : Leaves(r, "get") =>
       IF req'[r].getOk /\ ValidEntry(KeyOf(r))
       THEN /\ Done(r)'
            /\ req'[r].tier = "cache"
            /\ req'[r].dimensions =
                  Dims(Member(redis[KeyOf(r)].members, "width"),
                       Member(redis[KeyOf(r)].members, "height"))
            /\ scheduled' = scheduled
       ELSE /\ req'[r].pc \in { "queued", "starting" }
            /\ InSeq(scheduled', r)
\* C5: index dimensions that are both positive numbers are returned without
\* a cache read and without a probe; otherwise a structurally valid entry
\* under dim:{itemPath}:{mtime} is returned without a probe; a missing,
\* unparsable or invalid entry is a miss that schedules the probe.
C5_TierOrder == []C5_TierOrderState /\ [][C5_TierOrderStep]_vars

C5_Witness ==
    /\ generateCacheKey(<< "a" >>, 1) \in DOMAIN redis
    /\ redis[generateCacheKey(<< "a" >>, 1)] = Garbage
    /\ Done(1) /\ req[1].tier = "index"
    /\ req[2].mtime = 1 /\ req[2].getOk /\ req[2].pc = "running"

C6_NeverFailsState ==
    \A r \in Reqs : Done(r) =>
       /\ req[r].tier \in { "index", "cache", "computed", "default" }
       /\ req[r].tier = "default" => req[r].dimensions = Dims(Num(1920), Num(1080))
C6_NeverFailsStep ==
    \A r \in Reqs :
       /\ Leaves(r, "stat") => req'[r].pc \in { "get", "done" }
       /\ (Leaves(r, "get") /\ ~req'[r].getOk) => req'[r].pc \in { "queued", "starting" }
       /\ Leaves(r, "settled") =>
             IF req[r].promise = "rejected"
             THEN /\ Done(r)'
                  /\ req'[r].tier = "default"
                  /\ req'[r].dimensions = Dims(Num(1920), Num(1080))
                  /\ redis' = redis
             ELSE /\ req'[r].pc = "set"
                  /\ req'[r].dimensions = req[r].value
       /\ Leaves(r, "set") =>
             /\ Done(r)'
             /\ req'[r].tier = "computed"
             /\ req'[r].dimensions = req[r].dimensions
             /\ ~req'[r].setOk => redis' = redis
       /\ Done(r) => req'[r] = req[r]
\* C6: a failing probe yields the default {1920,1080} and no cache write, a
\* failing cache read leads to the probe, a failing cache write still
\* returns the probed dimensions, a failing fs.stat still resolves: every
\* buildMediaItem call ends with dimensions, none ends with an error.
C6_NeverFails == []C6_NeverFailsState /\ [][C6_NeverFailsStep]_vars

C6_Witness ==
    /\ Done(1) /\ req[1].tier = "default" /\ req[1].mtime = DateNow
    /\ Done(2) /\ req[2].tier = "computed" /\ ~req[2].getOk /\ ~req[2].setOk
    /\ req[2].dimensions = Dims(Num(2), Num(3))

C8_KeyedByMtime ==
    /\ \A r \in Reqs : (Done(r) /\ req[r].tier = "cache") =>
          req[r].hitFrom \subseteq { << req[r].path, req[r].mtime >> }
    /\ \A r \in Reqs : (Done(r) /\ req[r].tier = "cache" /\ req[r].hitFrom = {}) =>
          << req[r].path, req[r].mtime >> = << << "a" >>, 1 >>
    /\ \A pm \in DOMAIN computed :
          LET k == << "dim:" >> \o pm[1] \o << ":" >> \o NumberToString(pm[2])
          IN  /\ k \in DOMAIN redis
              /\ redis[k] = JSONstringifyDims(computed[pm])

C8_Witness ==
    /\ Done(1) /\ req[1].tier = "computed" /\ req[1].mtime = 1
    /\ Done(2) /\ req[2].tier = "computed" /\ req[2].mtime = 2
    /\ req[1].path = req[2].path
    /\ DOMAIN computed = { << << "a" >>, 1 >>, << << "a" >>, 2 >> }
    /\ computed[<< << "a" >>, 1 >>] # computed[<< << "a" >>, 2 >>]

\* ------------------------------------------------- cover resolver properties
AbsAlbum(rel) == pathJoin(PHOTOS_DIR, rel)
\* call c has returned, repeats the call before it with nothing else having
\* touched the index or the cache since that call began, and no store or
\* index operation failed
Repeats(c) ==
    /\ cov[c].pc = "done"
    /\ cov[c].repeatOf.valid
    /\ cov[c].alone
    /\ ~cov[c].faults
\* every safe album of the batch had a cover in the first call's result
AllCovered(c) ==
    \A rel \in Range(SafeRelsOf(cov[c].rels)) : AbsAlbum(rel) \in DOMAIN cov[c].repeatOf.result

\* C9 as claimed: the second of two identical calls returns the first call's
\* result and sends no query to album_covers or items, for every album set,
\* albums without a cover included.
C9_Claimed ==
    \A c \in Calls :
        Repeats(c) => /\ cov[c].coversMap = cov[c].repeatOf.result
                      /\ cov[c].tableQ = 0
                      /\ cov[c].itemsQ = 0

\* C9: the second of two identical calls, with no change to index, files or
\* cache in between, returns the first call's result; it sends no query to
\* album_covers or items when every album of the set resolved to a cover in
\* the first call, and repeats both queries when some album has no cover
\* (such an album is never cached).
C9_Idempotent ==
    \A c \in Calls :
        Repeats(c) => /\ cov[c].coversMap = cov[c].repeatOf.result
                      /\ AllCovered(c) => cov[c].tableQ = 0 /\ cov[c].itemsQ = 0
                      /\ ~AllCovered(c) => cov[c].tableQ > 0 /\ cov[c].itemsQ > 0
C9_Witness ==
    /\ Repeats(2)
    /\ cov[2].rels = << RelABwin, RelA >>
    /\ Cardinality(DOMAIN cov[2].coversMap) = 2
    /\ cov[1].tableQ > 0
    /\ cov[1].itemsQ > 0
    /\ cov[2].tableQ = 0

\* C10: once invalidateCoverCache(p) has completed with the store reachable,
\* no album that contains p (the media root excluded) has an entry under
\* cover_info:/{album} until the resolver writes one again; a
\* findCoverPhotosBatchDb call that reads the cache for such an album in that
\* state queries album_covers and does not serve the album from the cache.
C10_Invalidation ==
    /\ \A a \in prev.inv : coverCacheKey(a) \notin DOMAIN redis
    /\ \A c \in Calls :
          cov[c].pc = "done" /\ cov[c].afterInv # {}
             => cov[c].tableQ > 0 /\ cov[c].afterInv \cap cov[c].hits = {}
C10_Witness ==
    /\ cov[1].pc = "done"
    /\ RelA \in cov[1].hits
    /\ cov[2].pc = "done"
    /\ cov[2].afterInv = { RelA, RelAB }
    /\ cov[2].tableQ > 0
    /\ AbsAlbum(RelA) \in DOMAIN cov[2].coversMap
    /\ cov[2].coversMap[AbsAlbum(RelA)] # cov[1].coversMap[AbsAlbum(RelA)]

\* ------------------------------------------------- invalidator properties
\* C11 as claimed: after invalidateCoverCache(p) the cache entry of p itself
\* (p an album with a cached cover) is gone, like those of its ancestors.
C11_Claimed ==
    \A a \in prev.inv \cup prev.self : coverCacheKey(a) \notin DOMAIN redis

\* C11: invalidateCoverCache(p) removes the cache entries of the albums that
\* contain p (the media root excluded) and only those: the entry of p itself,
\* when p is an album with a cached cover, is still in the cache.
C11_AncestorsOnly ==
    /\ \A a \in prev.inv : coverCacheKey(a) \notin DOMAIN redis
    /\ \A a \in prev.self : coverCacheKey(a) \in DOMAIN redis
C11_Witness ==
    /\ prev.self = { RelAB }
    /\ prev.inv = { RelA }
    /\ cov[1].pc = "done"
    /\ cov[1].hits = { RelA, RelAB }
    /\ coverCacheKey(RelA) \notin DOMAIN redis
    /\ coverCacheKey(RelAB) \in DOMAIN redis

\* C12: a step of invalidateCoverCache(p) leaves the tables items and
\* album_covers, every dimension entry and the cover entry of every album
\* that does not contain p as they were, adds no key, and changes nothing at
\* all when redis.del fails.
AncestorKeys(p) == { coverCacheKey(a) : a \in AncestorAlbums(p) }
C12_FrameStep ==
    \A p \in InvalidatedPaths, ok \in BOOLEAN :
        invalidateCoverCache(p, ok) =>
            /\ albumCovers' = albumCovers
            /\ items' = items
            /\ DOMAIN redis' \subseteq DOMAIN redis
            /\ \A k \in (DOMAIN redis) \ AncestorKeys(p) :
                  k \in DOMAIN redis' /\ redis'[k] = redis[k]
            /\ ~ok => redis' = redis
C12_Frame == [][C12_FrameStep]_vars
C12_Witness ==
    /\ prev.inv = { RelA }
    /\ coverCacheKey(RelA) \notin DOMAIN redis
    /\ coverCacheKey(RelAB) \in DOMAIN redis
    /\ redis[coverCacheKey(RelAB)] = StaleCover
    /\ generateCacheKey(<< "a" >>, 1) \in DOMAIN redis
    /\ cov[1].pc = "idle"

\* ----------------------------------------------- fallback tier properties
\* the photo/video rows below album rel, and the most recently modified of them
Descendants(rel) ==
    { r \in items : r.type \in { "photo", "video" } /\ startsWith(r.path, rel \o << "/" >>) }
NewestDescendants(rel) ==
    { r \in Descendants(rel) : \A o \in Descendants(rel) : MtimeRank(o) <= MtimeRank(r) }

\* C13 as claimed: an album resolved by the fallback query gets its most
\* recently modified descendant photo/video as cover, and after the call the
\* cache and the table album_covers both hold that cover.
C13_Claimed ==
    \A c \in Calls :
        cov[c].pc = "done" /\ ~cov[c].faults =>
            \A a \in cov[c].fell :
                LET info == cov[c].coversMap[AbsAlbum(a)]
                IN  /\ \E r \in NewestDescendants(a) :
                          info.path = Str(pathJoin(PHOTOS_DIR, r.path))
                    /\ coverCacheKey(a) \in DOMAIN redis
                    /\ JSONparseInfo(redis[coverCacheKey(a)]) = info
                    /\ a \in DOMAIN albumCovers
                    /\ pathJoin(PHOTOS_DIR, albumCovers[a].cover_path) = info.path.s

\* C14 as claimed: an album without a row in album_covers and without a
\* photo/video below it is absent from the result, no cache entry is written
\* for it, and its album item carries the placeholder cover with 1x1.
AlbumRowOf(rel) == [ name |-> Str(pathBasename(rel)), mtime |-> Num(5) ]
C14_Claimed ==
    \A c \in Calls :
        cov[c].pc = "done" =>
            \A rel \in Range(SafeRelsOf(cov[c].rels)) :
                (Descendants(rel) = {} /\ rel \notin DOMAIN albumCovers
                   /\ coverCacheKey(rel) \notin DOMAIN redis \ cov[c].wrote)
                => LET item == buildAlbumItem(AlbumRowOf(rel), cov[c].coversMap, rel, DateNow)
                   IN  /\ AbsAlbum(rel) \notin DOMAIN cov[c].coversMap
                       /\ coverCacheKey(rel) \notin cov[c].wrote
                       /\ item.coverUrl = PlaceholderCover
                       /\ item.coverWidth = Num(1)
                       /\ item.coverHeight = Num(1)

\* C15: findCoverPhotosBatchDb isolates failures. When redis.mget fails no
\* album is served from the cache and every album goes to the index; every
\* album is in the result or was tried by the items query, whatever failed;
\* an album with a matching photo/video whose own items query did not fail,
\* and an album whose redis.set failed, are in the result; and every call
\* returns.
Tried(c, rel) == rel \in cov[c].asked \/ likeParamOf(rel) \in cov[c].liked
C15_State ==
    \A c \in Calls :
        cov[c].pc = "done" =>
            \A rel \in Range(SafeRelsOf(cov[c].rels)) :
                /\ << "mget" >> \in cov[c].failed => cov[c].hits = {} /\ Tried(c, rel)
                /\ AbsAlbum(rel) \in DOMAIN cov[c].coversMap
                      \/ likeParamOf(rel) \in cov[c].liked
                /\ (TopItems(likeParamOf(rel)) # {} /\ << "items" >> \o rel \notin cov[c].failed)
                      => AbsAlbum(rel) \in DOMAIN cov[c].coversMap
                /\ (<< "tset" >> \o rel \in cov[c].failed \/ << "iset" >> \o rel \in cov[c].failed)
                      => AbsAlbum(rel) \in DOMAIN cov[c].coversMap
C15_Isolation ==
    /\ []C15_State
    /\ \A c \in Calls : (cov[c].pc # "idle") ~> (cov[c].pc = "done")
C15_Witness ==
    /\ cov[1].pc = "done"
    /\ cov[1].rels = << RelC, RelAB, RelA >>
    /\ cov[1].failed = { << "mget" >>, << "table" >>, << "items" >> \o RelAB,
                         << "iset" >> \o RelA }
    /\ DOMAIN cov[1].coversMap = { AbsAlbum(RelA) }

\* C16: an album path that fails the safety check is dropped before any
\* lookup: it is never a key of the result, its cache key is neither read nor
\* written, and it is given neither to the album_covers query nor to the
\* items query; the safe paths of the same call are still resolved.
Unsafe(rel) == ~isPathSafe(ReplaceBackslashes(rel))
Resolvable(c, rel) ==
    \/ rel \in cov[c].hits
    \/ rel \in DOMAIN albumCovers
    \/ TopItems(likeParamOf(rel)) # {}
C16_UnsafeDropped ==
    \A c \in Calls :
        \A i \in 1..Len(cov[c].rels) :
            LET rel == cov[c].rels[i] IN
            IF Unsafe(rel)
            THEN /\ AbsAlbum(rel) \notin DOMAIN cov[c].coversMap
                 /\ coverCacheKey(rel) \notin cov[c].read \cup cov[c].wrote
                 /\ rel \notin cov[c].asked \cup cov[c].fell
                 /\ likeParamOf(rel) \notin cov[c].liked
            ELSE (cov[c].pc = "done" /\ cov[c].failed = {} /\ Resolvable(c, rel))
                    => AbsAlbum(rel) \in DOMAIN cov[c].coversMap
C16_Witness ==
    /\ cov[1].pc = "done"
    /\ cov[1].rels = << RelUp, RelA >>
    /\ cov[1].read = { coverCacheKey(RelA) }
    /\ DOMAIN cov[1].coversMap = { AbsAlbum(RelA) }

\* C17: getDirectoryContents validates before it reads. An unsafe prefix
\* fails before any filesystem, index or cache access; a safe non-root
\* prefix that is no existing directory fails as not found after fs.stat
\* alone; an absent root gives the empty result, without an error and
\* without a query.
Untouched(stores) ==
    /\ listing.accessed = stores
    /\ cov[1].pc = "idle"
    /\ redis = EmptyStore
    /\ ~browseIndexesEnsured
C17_ValidatesFirst ==
    LET prefix == listing.relativePathPrefix
        exists == pathJoin(PHOTOS_DIR, prefix) \in dirs
    IN  /\ (listing.pc # "idle" /\ ~isPathSafe(prefix))
              => listing.pc = "thrown" /\ listing.error = "unsafe" /\ Untouched({})
        /\ (listing.pc \notin { "idle", "stat" } /\ isPathSafe(prefix) /\ prefix # << >> /\ ~exists)
              => listing.pc = "thrown" /\ listing.error = "notfound" /\ Untouched({ "fs" })
        /\ (listing.pc \notin { "idle", "stat" } /\ prefix = << >> /\ ~exists)
              => listing.pc = "returned" /\ listing.result = EmptyResult /\ Untouched({ "fs" })
C17_Witness ==
    /\ listing.pc = "returned"
    /\ listing.relativePathPrefix = << >>
    /\ PHOTOS_DIR \notin dirs
    /\ listing.result = EmptyResult

\* C18: for a prefix with N qualifying children (the direct children, or on
\* the recursive home page the albums down to the configured depth) and any
\* page size, every sort mode lists the directory, the pages hold N items in
\* total and totalPages is ceil(N / pageSize).
QualifyingChildren(prefix, home) ==
    { r \in items :
        IF prefix = << >> /\ home THEN r.type = "album" /\ Depth(r.path) <= HOME_MAX_DEPTH
        ELSE IF prefix = << >> THEN Depth(r.path) = 0
        ELSE /\ startsWith(r.path, prefix \o << "/" >>)
             /\ Depth(SubSeq(r.path, Len(prefix) + 2, Len(r.path))) = 0 }
LastPage(n, limit) == IF MathCeil(n, limit) = 0 THEN 1 ELSE MathCeil(n, limit)
C18_Claimed ==
    LET n == Cardinality(QualifyingChildren(listing.relativePathPrefix, config.HOME_SHOW_SUBDIRS))
    IN  /\ (listing.pc = "returned" /\ "index" \in listing.accessed
             /\ listing.page <= LastPage(n, listing.limit))
              => /\ listing.result.totalPages = MathCeil(n, listing.limit)
                 /\ listing.page = LastPage(n, listing.limit) => listing.sum = n
        /\ listing.pc = "thrown" => listing.error \in { "unsafe", "notfound", "index" }

\* C19: in every page getDirectoryContents returns, every album item comes
\* before every media item, in each sort mode and whether or not the view
\* history re-sort was applied.
AlbumsFirst(seq) ==
    \A i, j \in 1..Len(seq) : (seq[i].type # "album" /\ seq[j].type = "album") => j < i
C19_AlbumsFirst == listing.pc = "returned" => AlbumsFirst(listing.result.items)
C19_Witness ==
    /\ listing.pc = "returned"
    /\ listing.sort = "mtime_asc"
    /\ Len(listing.result.items) = 3
    /\ listing.result.items[2].type = "album"
    /\ listing.result.items[3].type = "photo"
    /\ listing.result.items[3].mtime.v < listing.result.items[2].mtime.v

\* C20: with prefix "", sort mode smart, a 24 hour window and the three
\* albums A (modified now), B (40 hours ago) and C (2 hours ago), the listing
\* returns A, C, B: A and C are inside the window and come newest first, B
\* follows. (The claim as stated has C before A.)
Scenario ==
    /\ listing.pc = "returned"
    /\ listing.relativePathPrefix = << >>
    /\ listing.sort = "smart"
    /\ "index" \in listing.accessed
    /\ items = ListWorld
    /\ listing.page = 1
    /\ listing.limit = 3
Names(seq) == [ i \in 1..Len(seq) |-> seq[i].name ]
C20_Claimed == Scenario => Names(listing.result.items) = << << "C" >>, << "A" >>, << "B" >> >>
C20_SmartOrder == Scenario => Names(listing.result.items) = << << "A" >>, << "C" >>, << "B" >> >>
C20_Witness ==
    /\ Scenario
    /\ ~config.HOME_SHOW_SUBDIRS
    /\ Len(listing.result.items) = 3
    /\ listing.result.items[1].mtime = Num(ListNow)

\* C21: when the sort mode is viewed_desc, or smart below the root, and a
\* user is given, the returned page is a permutation of the fetched page with
\* the albums by the user's latest view, newest first, never viewed albums
\* after the viewed ones, ties by name, and the media by name; in every other
\* case the page is returned in the order of the query.
Viewed(userId, path) ==
    \E v \in viewHistory : v.user_id = userId /\ v.item_path = path
LatestView(userId, path) ==
    CHOOSE at \in { v.viewed_at : v \in { x \in viewHistory : x.user_id = userId
                                                            /\ x.item_path = path } } :
        \A v \in viewHistory : (v.user_id = userId /\ v.item_path = path) => v.viewed_at <= at
IsPermutation(a, b) ==
    /\ Len(a) = Len(b)
    /\ Paths(a) = Paths(b)
    /\ Cardinality(Paths(a)) = Len(a)
ByName(x, y) == CompareNoCase(x.name.s, y.name.s) <= 0
ByView(userId, x, y) ==
    IF Viewed(userId, x.path) /\ Viewed(userId, y.path)
    THEN \/ LatestView(userId, x.path) > LatestView(userId, y.path)
         \/ LatestView(userId, x.path) = LatestView(userId, y.path) /\ ByName(x, y)
    ELSE IF Viewed(userId, x.path) THEN TRUE
    ELSE IF Viewed(userId, y.path) THEN FALSE
    ELSE ByName(x, y)
ViewOrdered(rows, userId) ==
    \A i, j \in 1..Len(rows) :
        i < j => IF rows[i].is_dir = 1 /\ rows[j].is_dir = 1 THEN ByView(userId, rows[i], rows[j])
                 ELSE IF rows[i].is_dir = 0 /\ rows[j].is_dir = 0 THEN ByName(rows[i], rows[j])
                 ELSE rows[i].is_dir = 1
\* the items of the result are built from the rows, in their order
ItemsFollow(its, rows) ==
    /\ Len(its) = Len(rows)
    /\ \A i \in 1..Len(rows) :
          IF rows[i].is_dir = 1 THEN its[i].type = "album" /\ its[i].path = rows[i].path
          ELSE its[i].type # "album"
               /\ its[i].originalUrl = << "/static/" >> \o SplitEncodeJoin(rows[i].path)
Applies(q) == needViewedSort(q) /\ Truthy(q.userId)
HistoryFailed(q) == "history" \in q.accessed /\ ~q.resorted /\ q.pc # "history"
C22_KeepsOrder ==
    /\ listing.pc = "thrown" => "history" \notin listing.accessed
    /\ (needViewedSort(listing) /\ (HistoryFailed(listing) \/ ~Truthy(listing.userId))
         /\ listing.pc = "returned" /\ listing.result.items # << >>)
          => /\ listing.rowsEffective = listing.fetched
             /\ ItemsFollow(listing.result.items, listing.fetched)
             /\ listing.result.totalResults
                  = CountChildren(ReplaceBackslashes(listing.relativePathPrefix),
                                  config.HOME_SHOW_SUBDIRS)
             /\ listing.result.totalPages
                  = totalPagesOf(listing.result.totalResults, listing.limit)
C22_Witness ==
    /\ listing.pc = "returned"
    /\ listing.sort = "viewed_desc"
    /\ Truthy(listing.userId)
    /\ HistoryFailed(listing)
    /\ Len(listing.result.items) = 3
    /\ listing.result.items[1].path = Cb
    /\ listing.result.items[2].path = Ce

\* C23: the readiness of the page's videos never fails the listing. When
\* the filesystem check is enabled and succeeds its result is used and table
\* processed_videos is not read; when it fails or is disabled the ready
\* videos are the requested ones the table holds; when that query fails
\* too no video is ready; a photo is never ready.
Videos(q) == Paths(VideoRows(q.rowsEffective))
ReadyExpected(q) ==
    IF Videos(q) = {} THEN {}
    ELSE IF config.USE_FILE_SYSTEM_HLS_CHECK /\ "hls" \notin q.failed THEN hlsFiles \cap Videos(q)
    ELSE IF "markers" \notin q.failed THEN processedVideos \cap Videos(q)
    ELSE {}
C23_Readiness ==
    /\ listing.pc = "thrown" => listing.accessed \cap { "hls", "markers" } = {}
    /\ (listing.pc \in { "covers", "returned" } /\ listing.rowsEffective # << >>)
          => /\ listing.hlsReadySet = ReadyExpected(listing)
             /\ "hls" \in listing.accessed
                   <=> (Videos(listing) # {} /\ config.USE_FILE_SYSTEM_HLS_CHECK)
             /\ "markers" \in listing.accessed
                   <=> /\ Videos(listing) # {}
                       /\ ~config.USE_FILE_SYSTEM_HLS_CHECK \/ "hls" \in listing.failed
    /\ listing.pc = "returned"
          => \A i \in 1..Len(listing.result.items) :
                LET it == listing.result.items[i]
                    row == listing.rowsEffective[i]
                IN  /\ it.type = "photo" => ~it.hlsReady
                    /\ it.type = "video" => (it.hlsReady <=> row.path \in ReadyExpected(listing))
C23_Witness ==
    /\ listing.pc = "returned"
    /\ listing.failed = { "hls", "markers" }
    /\ \E i \in 1..Len(listing.result.items) :
          /\ listing.result.items[i].type = "video"
          /\ ~listing.result.items[i].hlsReady
          /\ listing.rowsEffective[i].path \in processedVideos

\* C24: whatever the interleaving of a findCoverPhotosBatchDb call with a
\* change of a cover in the index that is followed by invalidateCoverCache(p),
\* once the invalidation and the call have both finished, the cache entry of
\* every album above p is absent or holds a cover the index now gives.
CoverNow(a) ==
    IF a \in DOMAIN albumCovers
    THEN { pathJoin(PHOTOS_DIR, albumCovers[a].cover_path) }
    ELSE { pathJoin(PHOTOS_DIR, r.path) : r \in TopItems(likeParamOf(a)) }
FreshOrAbsent(a) ==
    coverCacheKey(a) \in DOMAIN redis
       => JSONparseInfo(redis[coverCacheKey(a)]).path.s \in CoverNow(a)
C24_Claimed ==
    (cov[1].pc = "done" /\ prev.swept # {}) => \A a \in prev.swept : FreshOrAbsent(a)

\* C25: for a fixed prefix, page size and sort mode over an unchanged index,
\* getDirectoryContents reports the same totalResults and the same
\* totalPages for every page number from 1 on, the pages past the last one
\* (whose items are empty) included.
C25_Claimed == Cardinality(listing.totals) <= 1

\* C26: every value getMediaDimensions returns and every value it writes to
\* the dimension cache has a width and a height that are both positive
\* numbers, whichever tier produced it and whatever the probe returned.
C26_Claimed ==
    /\ \A r \in Reqs : Done(r) => BothPositive(req[r].dimensions)
    /\ \A pm \in DOMAIN computed : BothPositive(computed[pm])
====
